---- MODULE Spec2Model ----
(***************************************************************************)
(* The redraw-protocol interpreter of veonim.                              *)
(*                                                                         *)
(* src/src/core/render.ts keeps the interpreter state in module-level      *)
(* variables (cmdcache, currentCommandMode, colors, modes, ...) and        *)
(* registers one handler per redraw event in the table `api`; onRedraw     *)
(* applies one batch of events per call.  src/src/render/events.ts holds   *)
(* the same command-line handlers for the newer renderer, and              *)
(* src/src/render/highlight-attributes.ts the highlight table, which is    *)
(* keyed by instances.current.                                             *)
(*                                                                         *)
(* JavaScript runs every callback to completion, so one call of onRedraw   *)
(* is modelled as a run of steps (pc = "loop") that no other callback      *)
(* interleaves with: one step per handler call of the for loop, then the   *)
(* end-of-batch bookkeeping.  pc = "done", "discarded", "continuation" or  *)
(* "call" (setDefaultColors, addHighlight called from outside)             *)
(* is the moment the callback returns; the history variables (batch,       *)
(* calls, pubs, moves, pre) describe the callback that is returning and    *)
(* are cleared when the event loop takes over again (Return).              *)
(***************************************************************************)
EXTENDS Integers, Sequences, FiniteSets, TLC

\* ---------------------------------------------------------------- bounds
MaxBatch == 3      \* events in one batch
MaxPending == 2    \* setImmediate continuations not yet run
MaxCursorCol == 3  \* columns the cursor may advance to
MaxPieces == 2     \* content pieces of one cmdline_show
MaxEchoBatch == 2  \* events in one batch of the echo specification
GridRows == 3      \* canvasContainer.size.rows
GridCols == 2      \* canvasContainer.size.cols
MaxScroll == 2     \* rows of one scroll
MaxBuffer == 14    \* characters in message.buffer (macro specification)
MaxChunks == 2     \* msg_chunk events of one message
MaxSpell == 3      \* chunks in spellCheckMsg (spell-check specification)
WaitTicks == 2     \* the wait of the debounced atlas check, in clock ticks
MaxCount == 2      \* times one color is recorded in commonColors
TopAmount == 16    \* getTopColors(amount = 16)
MaxTimers == 2     \* pending timers of one kind
MaxLookups == 2    \* getColor lookups of mode_info_set not yet answered
MaxEarly == 2      \* completion requests (EarlyPromise objects) in flight

\* ------------------------------------------------------- optional values
\* A JavaScript value that may be undefined or null: <<>> or <<v>>.
None == <<>>
Some(v) == <<v>>

VARIABLES
    current,             \* instances.current (core/instance-manager)
    cmdcache,            \* render.ts: the command-line cache
    currentCommandMode,  \* render.ts: kind of the last cmdline_show that published
    cursor,              \* core/cursor: the cursor cell
    lastScrollRegion,    \* render.ts: the one-shot scroll region
    colors,              \* render.ts: the default colors
    modes,               \* render.ts: the mode table
    currentMode,         \* render.ts: the mode of the last mode_change
    cursorStyle,         \* core/cursor: shape, size and color pushed so far
    immediates,          \* setImmediate continuations scheduled and not yet run
    getColorPending,     \* mode_info_set entries awaiting getColor(hl_id)
    nextAttrs,           \* render.ts: the attributes the next put writes with
    commonColors,        \* render.ts: how often each color was the next foreground
    grid,                \* core/grid: the cells and the ambient colors
    hasWindow,           \* core/windows: whether getWindow finds a surface
    message,             \* render.ts: the message buffer and its kind
    spellCheckMsg,       \* render.ts: the chunks of a spell-check prompt
    capturingSpellCheckMsg, \* render.ts: whether such a prompt is being captured
    timers,              \* setTimeout callbacks scheduled and not yet run
    lastTop,             \* render.ts: the top colors the last atlas check found
    initialAtlasGenerated, \* render.ts: whether the first atlas was generated
    timeout,             \* utils.ts debounce: the pending timer of the atlas
                         \* check and the ticks it has left
    defaultColorsMap,    \* highlight-attributes.ts: default colors per instance
    highlights,          \* highlight-attributes.ts: MapMap instance -> id -> group
    highlightInfo,       \* highlight-attributes.ts: instance -> name -> infos
    pc,                  \* where the running callback is
    batch,               \* the batch onRedraw was called with
    ix,                  \* index of the event the for loop is at
    tx,                  \* index of the argument tuple args.forEach is at
    calls,               \* history: handler calls made by this callback
    pubs,                \* history: notifications published by this callback
    moves,               \* history: moveCursor calls made by this callback
    draws,               \* history: calls on the drawing surface by this callback
    shifts,              \* history: region moves asked of the grid by this callback
    notes,               \* history: notify calls made by this callback
    generates,           \* history: fontAtlas.generate calls made by this callback
    pre,                 \* history: the interpreter state when the callback began
    showLog,             \* history: the last cmdline_show events issued since a hide
    logging,             \* whether showLog is kept (only where it is read)
    lastShown,           \* history: the kind of the last cmdline_show applied and
                         \* the topic of the last cmdline_show update published
    msgLog,              \* history: the kind and the chunks issued since a msg_end,
                         \* the kind of the message before, whether a macro end
                         \* followed the last showmode, the chunks issued since a
                         \* spell-check start marker
    early                \* utils.ts EarlyPromise: the completion requests in
                         \* flight and the queue of promise jobs

renderVars == <<cmdcache, currentCommandMode, cursor, lastScrollRegion, colors,
                modes, currentMode, cursorStyle, immediates, getColorPending,
                nextAttrs, commonColors, grid, hasWindow, message, spellCheckMsg,
                capturingSpellCheckMsg, timers>>
hlVars == <<defaultColorsMap, highlights, highlightInfo>>
atlasVars == <<lastTop, initialAtlasGenerated, timeout>>
turnVars == <<pc, batch, ix, tx, calls, pubs, moves, generates, draws, shifts, notes,
              pre>>
\* everything but the completion requests
rendererVars == <<current, renderVars, hlVars, atlasVars, turnVars, showLog, logging,
                  lastShown, msgLog>>
vars == <<rendererVars, early>>

\* ------------------------------------------------------------ instances
Instances == {1, 2}

\* ------------------------------------------------------------- utilities
HexDigits == <<"0", "1", "2", "3", "4", "5", "6", "7",
               "8", "9", "a", "b", "c", "d", "e", "f">>

\* utils.ts asColor: one byte as two lowercase hex digits
HexByte(n) == HexDigits[(n \div 16) + 1] \o HexDigits[(n % 16) + 1]

\* utils.ts asColor: `color ? '#' + ... : undefined`; 0 is falsy
asColor(color) ==
    IF color = 0 THEN None
    ELSE Some("#" \o HexByte((color \div 65536) % 256)
                  \o HexByte((color \div 256) % 256)
                  \o HexByte(color % 256))

ColorOf(color) == asColor(color)[1]

RECURSIVE ConcatAll(_)
\* content.reduce((str, [_, item]) => str + item, '')
ConcatAll(content) ==
    IF content = <<>> THEN ""
    ELSE content[1].item \o ConcatAll(Tail(content))

\* ------------------------------------------------------------------ text
\* The text of messages is a sequence of characters, so that the tests the
\* code makes on it (===, includes, the regular expressions) are computed.
RECURSIVE Join(_)
\* chunks.join(''), and the += of one chunk after another
Join(chunks) == IF chunks = <<>> THEN <<>> ELSE chunks[1] \o Join(Tail(chunks))

\* the pattern p is in the text t from its character i on
OccursAt(t, p, i) ==
    /\ i + Len(p) - 1 <= Len(t)
    /\ SubSeq(t, i, i + Len(p) - 1) = p

\* t.includes(p)
Includes(t, p) == \E i \in 1..(Len(t) + 1) : OccursAt(t, p, i)

\* the class \w of a regular expression
WordChars ==
    {"a", "b", "c", "d", "e", "f", "g", "h", "i", "j", "k", "l", "m",
     "n", "o", "p", "q", "r", "s", "t", "u", "v", "w", "x", "y", "z",
     "A", "B", "C", "D", "E", "F", "G", "H", "I", "J", "K", "L", "M",
     "N", "O", "P", "Q", "R", "S", "T", "U", "V", "W", "X", "Y", "Z",
     "0", "1", "2", "3", "4", "5", "6", "7", "8", "9", "_"}

\* 'recording @'
RecordingMark == <<"r", "e", "c", "o", "r", "d", "i", "n", "g", " ", "@">>

\* /recording @\w/ matches t from its character i on
RecordingAt(t, i) ==
    /\ OccursAt(t, RecordingMark, i)
    /\ i + Len(RecordingMark) <= Len(t)
    /\ t[i + Len(RecordingMark)] \in WordChars

\* /recording @\w/.test(t)
IsRecording(t) == \E i \in 1..Len(t) : RecordingAt(t, i)

\* t.match(/recording @(\w)/)[1]: the register of the leftmost match
RecordingRegister(t) ==
    IF ~IsRecording(t) THEN None
    ELSE LET at == CHOOSE i \in 1..Len(t) :
                       RecordingAt(t, i) /\ \A j \in 1..(i - 1) : ~RecordingAt(t, j)
         IN  Some(t[at + Len(RecordingMark)])

\* 'Change "' and '" to:'
ChangeMark == <<"C", "h", "a", "n", "g", "e", " ", "\"">>
ToMark == <<"\"", " ", "t", "o", ":">>

\* /Change "\w+" to:/.test(t)
StartsSpellCheck(t) ==
    \E i \in 1..Len(t), j \in 1..Len(t) :
        /\ OccursAt(t, ChangeMark, i)
        /\ j > i + Len(ChangeMark)
        /\ \A k \in (i + Len(ChangeMark))..(j - 1) : t[k] \in WordChars
        /\ OccursAt(t, ToMark, j)

\* 'Type number and <Enter>'
EnterMark == <<"T", "y", "p", "e", " ", "n", "u", "m", "b", "e", "r", " ",
               "a", "n", "d", " ", "<", "E", "n", "t", "e", "r", ">">>

\* /Type number and <Enter>/.test(t)
EndsSpellCheck(t) == Includes(t, EnterMark)

\* ----------------------------------------------------- the handler table
\* the names render.ts registers through the proxy `r`
api == {"cursor_goto", "set_scroll_region", "clear", "eol_clear",
        "update_fg", "update_bg", "update_sp", "mode_info_set", "mode_change",
        "highlight_set", "scroll", "resize", "put", "set_title",
        "popupmenu_hide", "popupmenu_select", "popupmenu_show",
        "tabline_update", "wildmenu_show", "wildmenu_select", "wildmenu_hide",
        "cmdline_show", "cmdline_hide", "cmdline_pos",
        "msg_start_kind", "msg_showcmd", "msg_chunk", "msg_end"}

\* the payload of a notification: fields the object does not carry are None
Payload(cmd, kind, position) == [cmd |-> cmd, kind |-> kind, position |-> position]
NoPayload == Payload(None, None, None)
Pub(topic, payload) == [topic |-> topic, payload |-> payload]

\* the interpreter state a handler reads and writes, with the notifications
\* published so far by the running callback
Interp == [cmdcache |-> cmdcache, currentCommandMode |-> currentCommandMode,
           cursor |-> cursor, lastScrollRegion |-> lastScrollRegion,
           colors |-> colors, modes |-> modes, currentMode |-> currentMode,
           cursorStyle |-> cursorStyle, getColorPending |-> getColorPending,
           nextAttrs |-> nextAttrs, commonColors |-> commonColors,
           grid |-> grid, hasWindow |-> hasWindow,
           message |-> message, spellCheckMsg |-> spellCheckMsg,
           capturingSpellCheckMsg |-> capturingSpellCheckMsg, timers |-> timers,
           pubs |-> pubs, draws |-> draws, shifts |-> shifts, notes |-> notes]

\* everything the program holds (no history)
ProgramState == [current |-> current, cmdcache |-> cmdcache,
                 currentCommandMode |-> currentCommandMode, cursor |-> cursor,
                 lastScrollRegion |-> lastScrollRegion, colors |-> colors,
                 modes |-> modes, currentMode |-> currentMode,
                 cursorStyle |-> cursorStyle, immediates |-> immediates,
                 getColorPending |-> getColorPending,
                 nextAttrs |-> nextAttrs, commonColors |-> commonColors,
                 grid |-> grid,
                 message |-> message, spellCheckMsg |-> spellCheckMsg,
                 capturingSpellCheckMsg |-> capturingSpellCheckMsg,
                 timers |-> timers, lastTop |-> lastTop,
                 initialAtlasGenerated |-> initialAtlasGenerated,
                 timeout |-> timeout,
                 defaultColorsMap |-> defaultColorsMap,
                 highlights |-> highlights, highlightInfo |-> highlightInfo]

\* ---------------------------------------------------------------- grid
\* core/grid: a cell blanked with the background bg
BlankCell(bg) ==
    [char |-> " ", fg |-> None, bg |-> bg, sp |-> None, underline |-> FALSE]

InGrid(row, col) ==
    /\ 0 <= row /\ row < GridRows
    /\ 0 <= col /\ col < GridCols

\* grid.set: a write outside the grid is rejected
GridSet(g, row, col, cell) ==
    IF InGrid(row, col) THEN [g EXCEPT !.cells[row][col] = cell] ELSE g

\* the cell of g at (row, col); outside the grid there is only background
GridGet(g, row, col) ==
    IF InGrid(row, col) THEN g.cells[row][col] ELSE BlankCell(g.bg)

InRegion(row, col, top, bottom, left, right) ==
    /\ top <= row /\ row <= bottom
    /\ left <= col /\ col <= right

\* grid.moveRegionUp: the rows of the region move up by amount, the rows
\* vacated at its bottom are filled with the ambient background
GridMoveRegionUp(g, amount, top, bottom, left, right) ==
    [g EXCEPT !.cells =
        [row \in 0..(GridRows - 1) |-> [col \in 0..(GridCols - 1) |->
            IF ~InRegion(row, col, top, bottom, left, right) THEN g.cells[row][col]
            ELSE IF row + amount <= bottom THEN GridGet(g, row + amount, col)
            ELSE BlankCell(g.bg)]]]

\* grid.moveRegionDown: the rows of the region move down by amount, the
\* rows vacated at its top are filled with the ambient background
GridMoveRegionDown(g, amount, top, bottom, left, right) ==
    [g EXCEPT !.cells =
        [row \in 0..(GridRows - 1) |-> [col \in 0..(GridCols - 1) |->
            IF ~InRegion(row, col, top, bottom, left, right) THEN g.cells[row][col]
            ELSE IF row - amount >= top THEN GridGet(g, row - amount, col)
            ELSE BlankCell(g.bg)]]]

\* ------------------------------------------------------------- handlers
\* Each handler maps the interpreter state s and one argument tuple a to
\* the interpreter state after the call.

\* r.cursor_goto = (row, col) => merge(cursor, { col, row })
r_cursor_goto(s, a) == [s EXCEPT !.cursor = [row |-> a.row, col |-> a.col]]

\* r.set_scroll_region
r_set_scroll_region(s, a) ==
    [s EXCEPT !.lastScrollRegion =
        Some([top |-> a.top, bottom |-> a.bottom, left |-> a.left, right |-> a.right])]

\* r.update_fg: a negative value is "unchanged"
r_update_fg(s, a) ==
    IF a.color < 0 THEN s
    ELSE [s EXCEPT !.colors.fg = asColor(a.color), !.grid.fg = asColor(a.color)]

r_update_bg(s, a) ==
    IF a.color < 0 THEN s
    ELSE [s EXCEPT !.colors.bg = asColor(a.color), !.grid.bg = asColor(a.color)]

\* an update_sp that writes the foreground
r_update_sp_fg(s, a) ==
    IF a.color < 0 THEN s
    ELSE [s EXCEPT !.colors.fg = asColor(a.color), !.grid.fg = asColor(a.color)]

r_update_sp(s, a) ==
    IF a.color < 0 THEN s
    ELSE [s EXCEPT !.colors.sp = asColor(a.color), !.grid.sp = asColor(a.color)]

\* cursorShapeType
cursorShapeType(shape) ==
    CASE shape = "block" -> "block"
      [] shape = "horizontal" -> "underline"
      [] shape = "vertical" -> "line"
      [] OTHER -> "block"

\* a Map after set(key, value)
MapPut(m, key, value) ==
    [k \in (DOMAIN m) \cup {key} |-> IF k = key THEN value ELSE m[k]]

EmptyMap == [k \in {} |-> k]

RECURSIVE mode_info_each(_, _)
\* infos.forEach(async mi => ...): an entry without hl_id is stored at once,
\* an entry with one waits for getColor
mode_info_each(s, infos) ==
    IF infos = <<>> THEN s
    ELSE LET mi == infos[1]
             info == [shape |-> cursorShapeType(mi.cursor_shape),
                      size |-> mi.cell_percentage, color |-> None]
             next == IF mi.hl_id # 0
                     THEN [s EXCEPT !.getColorPending =
                              Append(@, [mi |-> mi, info |-> info])]
                     ELSE [s EXCEPT !.modes = MapPut(@, mi.name, info)]
         IN  mode_info_each(next, Tail(infos))

r_mode_info_set(s, a) == mode_info_each(s, a.infos)

\* a mode_change that puts the cursor back to the block for an unknown mode
r_mode_change_resets(s, a) ==
    LET s1 == [s EXCEPT !.currentMode = Some(a.mode)]
    IN  IF a.mode \notin DOMAIN s.modes
        THEN [s1 EXCEPT !.cursorStyle = [shape |-> "block", size |-> None,
                                         color |-> @.color]]
        ELSE LET info == s.modes[a.mode]
             IN  [s1 EXCEPT !.cursorStyle =
                     [shape |-> info.shape, size |-> info.size,
                      color |-> IF info.color # None THEN info.color ELSE @.color]]

\* r.mode_change: an unknown mode changes currentMode only
r_mode_change(s, a) ==
    LET s1 == [s EXCEPT !.currentMode = Some(a.mode)]
    IN  IF a.mode \notin DOMAIN s.modes THEN s1
        ELSE LET info == s.modes[a.mode]
             IN  [s1 EXCEPT !.cursorStyle =
                     [shape |-> info.shape, size |-> info.size,
                      color |-> IF info.color # None THEN info.color ELSE @.color]]

\* one call on the drawing surface
Draw(op, a) == [op |-> op, a |-> a]

\* the calls win && win.f(...) makes: none without a surface
OnWindow(s, ds) == IF s.hasWindow THEN [s EXCEPT !.draws = @ \o ds] ELSE s

\* defaultScrollRegion
defaultScrollRegion ==
    [top |-> 0, left |-> 0, right |-> GridCols, bottom |-> GridRows]

\* a moveRegionUp whose grid shift is one row short of the drawn one
moveRegionUpShort(s, amount, R) ==
    LET region == [width |-> R.right - R.left + 1,
                   height |-> R.bottom - (R.top + amount) + 1,
                   source |-> [col |-> R.left, row |-> R.top + amount],
                   destination |-> [col |-> R.left, row |-> R.top]]
        drawn == OnWindow(s, <<Draw("moveRegion", region),
                               Draw("setColor", s.colors.bg),
                               Draw("fillRect", <<R.left, R.bottom - amount + 1,
                                                  R.right - R.left + 1, amount>>)>>)
    IN  [drawn EXCEPT
           !.shifts = Append(@, [dir |-> "up", amount |-> amount - 1, region |-> R]),
           !.grid = GridMoveRegionUp(@, amount - 1, R.top, R.bottom, R.left, R.right)]

\* moveRegionUp
moveRegionUp(s, amount, R) ==
    LET region == [width |-> R.right - R.left + 1,
                   height |-> R.bottom - (R.top + amount) + 1,
                   source |-> [col |-> R.left, row |-> R.top + amount],
                   destination |-> [col |-> R.left, row |-> R.top]]
        drawn == OnWindow(s, <<Draw("moveRegion", region),
                               Draw("setColor", s.colors.bg),
                               Draw("fillRect", <<R.left, R.bottom - amount + 1,
                                                  R.right - R.left + 1, amount>>)>>)
    IN  [drawn EXCEPT
           !.shifts = Append(@, [dir |-> "up", amount |-> amount, region |-> R]),
           !.grid = GridMoveRegionUp(@, amount, R.top, R.bottom, R.left, R.right)]

\* a moveRegionDown that shifts the grid from one row below the region top
moveRegionDownOff(s, amount, R) ==
    LET region == [width |-> R.right - R.left + 1,
                   height |-> R.bottom - (R.top + amount) + 1,
                   source |-> [col |-> R.left, row |-> R.top],
                   destination |-> [col |-> R.left, row |-> R.top + amount]]
        drawn == OnWindow(s, <<Draw("moveRegion", region),
                               Draw("setColor", s.colors.bg),
                               Draw("fillRect", <<R.left, R.top,
                                                  R.right - R.left + 1, amount>>)>>)
        off == [R EXCEPT !.top = @ + 1]
    IN  [drawn EXCEPT
           !.shifts = Append(@, [dir |-> "down", amount |-> amount, region |-> off]),
           !.grid = GridMoveRegionDown(@, amount, off.top, off.bottom, off.left, off.right)]

\* moveRegionDown
moveRegionDown(s, amount, R) ==
    LET region == [width |-> R.right - R.left + 1,
                   height |-> R.bottom - (R.top + amount) + 1,
                   source |-> [col |-> R.left, row |-> R.top],
                   destination |-> [col |-> R.left, row |-> R.top + amount]]
        drawn == OnWindow(s, <<Draw("moveRegion", region),
                               Draw("setColor", s.colors.bg),
                               Draw("fillRect", <<R.left, R.top,
                                                  R.right - R.left + 1, amount>>)>>)
    IN  [drawn EXCEPT
           !.shifts = Append(@, [dir |-> "down", amount |-> amount, region |-> R]),
           !.grid = GridMoveRegionDown(@, amount, R.top, R.bottom, R.left, R.right)]

\* a scroll that keeps the region for the next one
r_scroll_keeps(s, a) ==
    LET R == IF s.lastScrollRegion # None THEN s.lastScrollRegion[1]
             ELSE defaultScrollRegion
    IN  IF a.amount > 0 THEN moveRegionUp(s, a.amount, R)
        ELSE moveRegionDown(s, -a.amount, R)

\* r.scroll
r_scroll(s, a) ==
    LET R == IF s.lastScrollRegion # None THEN s.lastScrollRegion[1]
             ELSE defaultScrollRegion
        moved == IF a.amount > 0 THEN moveRegionUp(s, a.amount, R)
                 ELSE moveRegionDown(s, -a.amount, R)
    IN  [moved EXCEPT !.lastScrollRegion = None]

RECURSIVE PutChars(_, _)
\* the for loop of r.put: fillText unless the character is a space, the
\* cell written, the cursor advanced
PutChars(s, chars) ==
    IF chars = <<>> THEN s
    ELSE LET ch == chars[1].ch
             drawn == IF ch # " "
                      THEN OnWindow(s, <<Draw("fillText", <<ch, s.cursor.col, s.cursor.row>>)>>)
                      ELSE s
             underlinePls == s.nextAttrs.undercurl \/ s.nextAttrs.underline
         IN  PutChars([drawn EXCEPT
                         !.grid = GridSet(@, s.cursor.row, s.cursor.col,
                                          [char |-> ch, fg |-> s.nextAttrs.fg,
                                           bg |-> s.nextAttrs.bg, sp |-> s.nextAttrs.sp,
                                           underline |-> underlinePls]),
                         !.cursor.col = @ + 1],
                      Tail(chars))

RECURSIVE r_put_wraps(_, _)
\* a put that wraps to the first column at the end of the row
r_put_wraps(s, chars) ==
    IF chars = <<>> THEN s
    ELSE r_put_wraps([s EXCEPT
                        !.grid = GridSet(@, s.cursor.row, s.cursor.col % GridCols,
                                         [char |-> chars[1].ch, fg |-> s.nextAttrs.fg,
                                          bg |-> s.nextAttrs.bg, sp |-> s.nextAttrs.sp,
                                          underline |-> FALSE]),
                        !.cursor.col = @ + 1],
                     Tail(chars))

\* a put that writes its characters from the last to the first
r_put_backwards(s, chars) ==
    PutChars(s, [i \in 1..Len(chars) |-> chars[Len(chars) + 1 - i]])

\* r.put: called once with all the tuples of the event
r_put(s, chars) ==
    LET total == Len(chars)
        underlinePls == s.nextAttrs.undercurl \/ s.nextAttrs.underline
        begun == OnWindow(s, <<Draw("setColor", s.nextAttrs.bg),
                               Draw("fillRect", <<s.cursor.col, s.cursor.row, total, 1>>),
                               Draw("setColor", s.nextAttrs.fg),
                               Draw("setTextBaseline", "top")>>)
        written == PutChars(begun, chars)
    IN  IF total = 0 THEN s
        ELSE IF underlinePls
             THEN OnWindow(written, <<Draw("underline", <<s.cursor.col, s.cursor.row,
                                                          total, s.nextAttrs.sp>>)>>)
             ELSE written

\* Reflect.get({ ':': Ex, '/': SearchForward, '?': SearchBackward }, opChar) || Ex
CommandKind(opChar) ==
    CASE opChar = ":" -> "Ex"
      [] opChar = "/" -> "SearchForward"
      [] opChar = "?" -> "SearchBackward"
      [] OTHER -> "Ex"

\* the topic cmdline_show and cmdline_pos publish on: kind === CommandType.Ex
\* selects cmd.update
UpdateTopic(kind) == IF kind = Some("Ex") THEN "cmd.update" ELSE "search.update"

\* a cmdline_show that publishes whether or not the content is the cached one
r_cmdline_show_always(s, a) ==
    LET cmd == ConcatAll(a.content)
        kind == CommandKind(a.opChar)
    IN  [s EXCEPT !.cmdcache = [active |-> TRUE, position |-> a.position,
                                cmd |-> Some(cmd)],
                  !.currentCommandMode = Some(kind),
                  !.pubs = Append(@, Pub(UpdateTopic(Some(kind)),
                                         Payload(Some(cmd),
                                                 Some(IF a.prompt # "" THEN "Prompt" ELSE kind),
                                                 Some(a.position))))]

\* a cmdline_show that compares the content before it caches anything
r_cmdline_show_early(s, a) ==
    IF s.cmdcache.cmd = Some(ConcatAll(a.content)) THEN s
    ELSE r_cmdline_show_always(s, a)

\* r.cmdline_show
r_cmdline_show(s, a) ==
    LET cmd == ConcatAll(a.content)
        kind == CommandKind(a.opChar)
        cached == [s.cmdcache EXCEPT !.active = TRUE, !.position = a.position]
        update == Payload(Some(cmd),
                          Some(IF a.prompt # "" THEN "Prompt" ELSE kind),
                          Some(a.position))
    IN  IF s.cmdcache.cmd = Some(cmd) THEN [s EXCEPT !.cmdcache = cached]
        ELSE [s EXCEPT !.cmdcache = [cached EXCEPT !.cmd = Some(cmd)],
                       !.currentCommandMode = Some(kind),
                       !.pubs = Append(@, Pub(UpdateTopic(Some(kind)), update))]

\* a cmdline_hide that leaves the cached content in place
r_cmdline_hide_keeps(s, a) ==
    [s EXCEPT !.cmdcache = [@ EXCEPT !.active = FALSE, !.position = -999],
              !.pubs = @ \o <<Pub("cmd.hide", NoPayload), Pub("search.hide", NoPayload)>>]

\* r.cmdline_hide
r_cmdline_hide(s, a) ==
    [s EXCEPT !.cmdcache = [active |-> FALSE, position |-> -999, cmd |-> None],
              !.pubs = @ \o <<Pub("cmd.hide", NoPayload), Pub("search.hide", NoPayload)>>]

\* a cmdline_pos that always goes to the command topic
r_cmdline_pos_cmd(s, a) ==
    [s EXCEPT !.pubs = Append(@, Pub("cmd.update",
                                     Payload(None, None, Some(a.position))))]

\* r.cmdline_pos
r_cmdline_pos(s, a) ==
    [s EXCEPT !.pubs = Append(@, Pub(UpdateTopic(s.currentCommandMode),
                                     Payload(None, None, Some(a.position))))]

\* -------------------------------------------------------------- messages
\* msgKinds
msgKinds == [emsg |-> "error", echo |-> "info", echomsg |-> "info"]

\* ui/notifications: the severities of a notification
NotifyKind == [Error |-> "error", Warning |-> "warning", Info |-> "info",
               Success |-> "success", Hidden |-> "hidden"]

\* notify(text, kind)
Notify(s, text, kind) == [s EXCEPT !.notes = Append(@, [text |-> text, kind |-> kind])]

\* resetMsg: the buffer is emptied now, the kind hidden by a timer
resetMsg(s) == [s EXCEPT !.message.buffer = <<>>, !.timers.resetMsg = @ + 1]

\* r.msg_start_kind: a known kind is latched, showmode starts the timer of
\* the macro check, any other kind is only logged
r_msg_start_kind(s, a) ==
    IF a.kind \in DOMAIN msgKinds THEN [s EXCEPT !.message.kind = msgKinds[a.kind]]
    ELSE IF a.kind = "showmode" THEN [s EXCEPT !.timers.showmode = @ + 1]
    ELSE s

\* r.msg_showcmd
r_msg_showcmd(s, a) == Notify(s, Join(a.content), None)

\* a msg_chunk that publishes the prompt without the chunk that ends it
r_msg_chunk_late(s, a) ==
    LET capturing == StartsSpellCheck(a.data) \/ s.capturingSpellCheckMsg
        captured == IF capturing THEN Append(s.spellCheckMsg, a.data)
                    ELSE s.spellCheckMsg
        s1 == IF EndsSpellCheck(a.data)
              THEN [s EXCEPT !.capturingSpellCheckMsg = FALSE,
                             !.pubs = Append(@, Pub("msg:spell-check",
                                                    [text |-> Join(s.spellCheckMsg)])),
                             !.spellCheckMsg = <<>>]
              ELSE [s EXCEPT !.capturingSpellCheckMsg = capturing,
                             !.spellCheckMsg = captured]
    IN  [s1 EXCEPT !.message.buffer = @ \o a.data]

\* r.msg_chunk
r_msg_chunk(s, a) ==
    LET capturing == StartsSpellCheck(a.data) \/ s.capturingSpellCheckMsg
        captured == IF capturing THEN Append(s.spellCheckMsg, a.data)
                    ELSE s.spellCheckMsg
        s1 == IF EndsSpellCheck(a.data)
              THEN [s EXCEPT !.capturingSpellCheckMsg = FALSE,
                             !.pubs = Append(@, Pub("msg:spell-check",
                                                    [text |-> Join(captured)])),
                             !.spellCheckMsg = <<>>]
              ELSE [s EXCEPT !.capturingSpellCheckMsg = capturing,
                             !.spellCheckMsg = captured]
    IN  [s1 EXCEPT !.message.buffer = @ \o a.data]

\* matchOn(message.kind)({...}): the kinds that have a branch
Surfaced == {NotifyKind.Error, NotifyKind.Warning, NotifyKind.Info, NotifyKind.Success}

\* a msg_end that goes on to the severities after the macro end
r_msg_end_falls(s, a) ==
    IF s.message.buffer = <<"<">> THEN resetMsg(s)
    ELSE LET s1 == IF IsRecording(s.message.buffer)
                   THEN [s EXCEPT !.pubs = Append(@, Pub("vim:macro.end", NoPayload))]
                   ELSE s
         IN  resetMsg(IF s1.message.kind \in Surfaced
                      THEN Notify(s1, s1.message.buffer, s1.message.kind)
                      ELSE s1)

\* r.msg_end
r_msg_end(s, a) ==
    IF s.message.buffer = <<"<">> THEN resetMsg(s)
    ELSE LET s1 == IF s.message.kind = "" THEN Notify(s, s.message.buffer, NotifyKind.Hidden)
                   ELSE s
         IN  IF IsRecording(s.message.buffer)
             THEN [s1 EXCEPT !.pubs = Append(@, Pub("vim:macro.end", NoPayload))]
             ELSE resetMsg(IF s1.message.kind \in Surfaced
                           THEN Notify(s1, s1.message.buffer, s1.message.kind)
                           ELSE s1)

\* ----------------------------------------------------------- the atlas
\* recordColor: the count of color in commonColors goes up by one; a color
\* not yet in the map starts at 0
recordColor(counts, color) ==
    IF color \in DOMAIN counts THEN [counts EXCEPT ![color] = @ + 1]
    ELSE [c \in DOMAIN counts \cup {color} |->
            IF c = color THEN 1 ELSE counts[c]]

\* a highlight_set that records the foreground it had before the swap
r_highlight_set_unswapped(s, a) ==
    LET fg == IF a.foreground # 0 THEN asColor(a.foreground) ELSE s.colors.fg
        bg == IF a.background # 0 THEN asColor(a.background) ELSE s.colors.bg
        sp == IF a.special # 0 THEN asColor(a.special) ELSE s.colors.sp
        next == IF a.reverse
                THEN [fg |-> bg, bg |-> fg, sp |-> sp,
                      underline |-> a.underline, undercurl |-> a.undercurl]
                ELSE [fg |-> fg, bg |-> bg, sp |-> sp,
                      underline |-> a.underline, undercurl |-> a.undercurl]
    IN  [s EXCEPT !.nextAttrs = next,
                  !.commonColors = recordColor(@, fg)]

\* r.highlight_set: a color of 0 or none falls back to the default; reverse
\* swaps foreground and background; the foreground that results is recorded
r_highlight_set(s, a) ==
    LET fg == IF a.foreground # 0 THEN asColor(a.foreground) ELSE s.colors.fg
        bg == IF a.background # 0 THEN asColor(a.background) ELSE s.colors.bg
        sp == IF a.special # 0 THEN asColor(a.special) ELSE s.colors.sp
        next == IF a.reverse
                THEN [fg |-> bg, bg |-> fg, sp |-> sp,
                      underline |-> a.underline, undercurl |-> a.undercurl]
                ELSE [fg |-> fg, bg |-> bg, sp |-> sp,
                      underline |-> a.underline, undercurl |-> a.undercurl]
    IN  [s EXCEPT !.nextAttrs = next,
                  !.commonColors = recordColor(@, next.fg)]

RECURSIVE Drops(_, _)
\* the subsets of S that have k elements
Drops(S, k) ==
    IF k = 0 THEN {{}}
    ELSE UNION {{X \cup {c} : X \in Drops(S \ {c}, k - 1)} : c \in S}

RECURSIVE ByCount(_, _)
\* the colors of S from the most to the least recorded
ByCount(counts, S) ==
    IF S = {} THEN <<>>
    ELSE LET c == CHOOSE x \in S : \A y \in S : counts[x] >= counts[y]
         IN  <<c>> \o ByCount(counts, S \ {c})

\* getTopColors: the entries sorted from the most recorded on, the first
\* `amount` of them. The comparator never answers 0, so which of the colors
\* of equal count come first is left to the sort: every outcome is taken.
getTopColors(counts, amount) ==
    LET all == DOMAIN counts
        over == Cardinality(all) - amount
    IN  IF over <= 0 THEN {ByCount(counts, all)}
        ELSE {ByCount(counts, all \ out) :
                 out \in {X \in Drops(all, over) :
                             \A o \in X, t \in all \ X : counts[o] <= counts[t]}}

Range(seq) == {seq[i] : i \in 1..Len(seq)}

\* a sameColors that asks whether the recorded colors are all still on top
sameColorsReversed(top) == \A i \in 1..Len(lastTop) : lastTop[i] \in Range(top)

\* sameColors: colors.every(c => lastTop.includes(c))
sameColors(top) == \A i \in 1..Len(top) : top[i] \in Range(lastTop)

RECURSIVE Unique(_)
\* [...new Set(array)]: the first occurrence of every element, in order
Unique(seq) ==
    IF seq = <<>> THEN <<>>
    ELSE LET front == Unique(SubSeq(seq, 1, Len(seq) - 1))
             last == seq[Len(seq)]
         IN  IF last \in Range(front) THEN front ELSE Append(front, last)

\* api.get(method) applied to one argument tuple
Handler(method, s, a) ==
    CASE method = "cursor_goto" -> r_cursor_goto(s, a)
      [] method = "set_scroll_region" -> r_set_scroll_region(s, a)
      [] method = "update_fg" -> r_update_fg(s, a)
      [] method = "update_bg" -> r_update_bg(s, a)
      [] method = "update_sp" -> r_update_sp(s, a)
      [] method = "mode_info_set" -> r_mode_info_set(s, a)
      [] method = "mode_change" -> r_mode_change(s, a)
      [] method = "highlight_set" -> r_highlight_set(s, a)
      [] method = "scroll" -> r_scroll(s, a)
      [] method = "cmdline_show" -> r_cmdline_show(s, a)
      [] method = "cmdline_hide" -> r_cmdline_hide(s, a)
      [] method = "cmdline_pos" -> r_cmdline_pos(s, a)
      [] method = "msg_start_kind" -> r_msg_start_kind(s, a)
      [] method = "msg_showcmd" -> r_msg_showcmd(s, a)
      [] method = "msg_chunk" -> r_msg_chunk(s, a)
      [] method = "msg_end" -> r_msg_end(s, a)
      [] OTHER -> s

\* the interpreter state and the published notifications become s
SetInterp(s) ==
    /\ cmdcache' = s.cmdcache
    /\ currentCommandMode' = s.currentCommandMode
    /\ cursor' = s.cursor
    /\ lastScrollRegion' = s.lastScrollRegion
    /\ colors' = s.colors
    /\ modes' = s.modes
    /\ currentMode' = s.currentMode
    /\ cursorStyle' = s.cursorStyle
    /\ getColorPending' = s.getColorPending
    /\ nextAttrs' = s.nextAttrs
    /\ commonColors' = s.commonColors
    /\ grid' = s.grid
    /\ message' = s.message
    /\ spellCheckMsg' = s.spellCheckMsg
    /\ capturingSpellCheckMsg' = s.capturingSpellCheckMsg
    /\ timers' = s.timers
    /\ pubs' = s.pubs
    /\ draws' = s.draws
    /\ shifts' = s.shifts
    /\ notes' = s.notes

\* ------------------------------------------------------------- history
\* the chunks issued from a spell-check start marker on, once the chunk
\* data is issued after span: with data when a span is open or data opens
\* one
SpanWith(span, data) ==
    IF span # None THEN Some(Append(span[1], data))
    ELSE IF StartsSpellCheck(data) THEN Some(<<data>>)
    ELSE None

\* the same after the chunk: the end marker closes the span
SpanAfter(span, data) == IF EndsSpellCheck(data) THEN None ELSE SpanWith(span, data)

\* What showLog records of one cmdline_show tuple a, issued while the cache
\* was `cache`: whether its handler ran, whether the cached content differed
\* from its content, and how many updates it published.
ShowEntry(a, cache, applied, updates) ==
    [cmd |-> ConcatAll(a.content), position |-> a.position, applied |-> applied,
     differed |-> cache.cmd # Some(ConcatAll(a.content)), updates |-> updates]

\* showLog keeps the last two
LogShow(log, e) == IF Len(log) < 2 THEN Append(log, e) ELSE <<log[2], e>>

RECURSIVE LogTuples(_, _, _, _)
\* the tuples of one event of a discarded batch: issued, never applied
LogTuples(log, method, args, cache) ==
    IF args = <<>> THEN log
    ELSE LogTuples(CASE method = "cmdline_show" ->
                            LogShow(log, ShowEntry(args[1], cache, FALSE, 0))
                     [] method = "cmdline_hide" -> <<>>
                     [] OTHER -> log,
                   method, Tail(args), cache)

RECURSIVE LogDiscarded(_, _, _)
LogDiscarded(log, m, cache) ==
    IF m = <<>> THEN log
    ELSE LogDiscarded(LogTuples(log, m[1].name, m[1].args, cache), Tail(m), cache)

\* the kind the interface documents for a cmdline_show: Ex for ':' and for
\* any other character, the search kinds for '/' and '?', Prompt whenever
\* a prompt string comes with it
ClaimedKind(a) ==
    IF a.prompt # "" THEN "Prompt"
    ELSE IF a.opChar = "/" THEN "SearchForward"
    ELSE IF a.opChar = "?" THEN "SearchBackward"
    ELSE "Ex"

\* ------------------------------------------------------------- onRedraw
\* a cmdlineIsSame that tests the active flag the wrong way round
cmdlineIsSameInverted(data) == ~cmdcache.active /\ cmdcache.position = data.position

\* cmdlineIsSame(...data): data[1] is the position of the cmdline_show
cmdlineIsSame(data) == cmdcache.active /\ cmdcache.position = data.position

\* doNotUpdateCmdlineIfSame(m[0]); args is None for an empty batch
doNotUpdateCmdlineIfSame(args) ==
    /\ args # None
    /\ args[1].name = "cmdline_show"
    /\ cmdlineIsSame(args[1].args[1])

\* m[0]
FirstOf(m) == IF Len(m) > 0 THEN Some(m[1]) ELSE None

\* method === 'put' ? fn(args) : args.forEach(a => fn(...a))
IsBulk(method) == method = "put"

RECURSIVE PutTotal(_)
\* characters the put events of a batch write
PutTotal(m) ==
    IF m = <<>> THEN 0
    ELSE (IF m[1].name = "put" THEN Len(m[1].args) ELSE 0) + PutTotal(Tail(m))

\* the largest column a cursor_goto of the batch names
GotoCol(m) ==
    LET cols == {0} \cup UNION {{m[i].args[j].col : j \in 1..Len(m[i].args)} :
                                 i \in {k \in 1..Len(m) : m[k].name = "cursor_goto"}}
    IN  CHOOSE c \in cols : \A d \in cols : d <= c

\* the cursor stays within the columns the model covers
WithinBounds(m) ==
    (IF cursor.col > GotoCol(m) THEN cursor.col ELSE GotoCol(m)) + PutTotal(m)
        <= MaxCursorCol

\* the tuples of the events named name in the batch m
TuplesOf(m, name) ==
    UNION {{<<i, j>> : j \in 1..Len(m[i].args)} :
              i \in {k \in 1..Len(m) : m[k].name = name}}

RECURSIVE ChunkTotal(_)
\* characters the msg_chunk events of a batch append (one tuple each)
ChunkTotal(m) ==
    IF m = <<>> THEN 0
    ELSE (IF m[1].name = "msg_chunk" THEN Len(m[1].args[1].data) ELSE 0)
         + ChunkTotal(Tail(m))

\* the buffer stays within MaxBuffer characters
BufferWithinBounds(m) == Len(message.buffer) + ChunkTotal(m) <= MaxBuffer

\* the chunks of a message and the pending timers stay within what the
\* model covers
MessageWithinBounds(m) ==
    /\ Len(msgLog.chunks) + Cardinality(TuplesOf(m, "msg_chunk")) <= MaxChunks
    /\ timers.resetMsg + Cardinality(TuplesOf(m, "msg_end")) <= MaxTimers
    /\ timers.showmode + Cardinality(TuplesOf(m, "msg_start_kind")) <= MaxTimers

\* onRedraw is called with the batch m: the feedback-loop check, then the loop
OnRedraw(m) ==
    /\ pc = "idle"
    /\ immediates < MaxPending
    /\ WithinBounds(m)
    /\ MessageWithinBounds(m)
    /\ batch' = m
    /\ pre' = Some(ProgramState)
    /\ IF doNotUpdateCmdlineIfSame(FirstOf(m))
       THEN /\ pc' = "discarded"
            /\ ix' = 0
            /\ showLog' = IF logging THEN LogDiscarded(showLog, m, cmdcache) ELSE showLog
       ELSE /\ pc' = "loop"
            /\ ix' = 1
            /\ showLog' = showLog
    /\ tx' = 1
    /\ UNCHANGED <<current, renderVars, hlVars, atlasVars, early, calls, pubs, moves,
                   generates, draws, shifts, notes,
                   logging, lastShown, msgLog>>

\* the loop is at an event that has a next argument tuple
AtEvent == pc = "loop" /\ ix <= Len(batch)

\* the loop moves on to the next event
NextEvent == ix' = ix + 1 /\ tx' = 1

\* an unknown event that ends the loop instead of being skipped
SkipUnknownAborts ==
    /\ AtEvent
    /\ batch[ix].name \notin api
    /\ ix' = Len(batch) + 1
    /\ tx' = 1
    /\ UNCHANGED <<current, renderVars, hlVars, atlasVars, early, pc, batch, calls, pubs,
                   moves, generates, draws,
                   shifts, notes, pre, showLog, logging, lastShown, msgLog>>

\* api.get(method) is undefined: nothing is called
SkipUnknown ==
    /\ AtEvent
    /\ batch[ix].name \notin api
    /\ NextEvent
    /\ UNCHANGED <<current, renderVars, hlVars, atlasVars, early, pc, batch, calls, pubs,
                   moves, generates, draws,
                   shifts, notes, pre, showLog, logging, lastShown, msgLog>>

\* fn(args): put takes all its tuples in one call
CallPut ==
    /\ AtEvent
    /\ batch[ix].name \in api
    /\ IsBulk(batch[ix].name)
    /\ SetInterp(r_put(Interp, batch[ix].args))
    /\ calls' = Append(calls, [name |-> batch[ix].name, args |-> batch[ix].args])
    /\ NextEvent
    /\ UNCHANGED <<current, immediates, hasWindow, hlVars, atlasVars, early, pc, batch, moves,
                   generates, pre,
                   showLog, logging, lastShown, msgLog>>

\* a forEach that walks the tuples from the last to the first
TupleAtReversed(args, n) == args[Len(args) + 1 - n]

\* the tuple args.forEach passes at its step tx
TupleAt(args, n) == args[n]

\* args.forEach(a => fn(...a)): one call per tuple
CallHandler ==
    /\ AtEvent
    /\ batch[ix].name \in api
    /\ ~IsBulk(batch[ix].name)
    /\ LET method == batch[ix].name
           args == batch[ix].args
       IN  IF tx > Len(args)
           THEN /\ NextEvent
                /\ UNCHANGED <<renderVars, calls, pubs, draws, shifts, notes, showLog,
                               lastShown, msgLog>>
           ELSE LET a == TupleAt(args, tx)
                    s == Handler(method, Interp, a)
                IN  /\ SetInterp(s)
                    /\ calls' = Append(calls, [name |-> method, args |-> <<a>>])
                    /\ IF tx = Len(args) THEN NextEvent ELSE ix' = ix /\ tx' = tx + 1
                    /\ showLog' =
                         CASE logging /\ method = "cmdline_show" ->
                                  LogShow(showLog, ShowEntry(a, cmdcache, TRUE,
                                                             Len(s.pubs) - Len(pubs)))
                           [] logging /\ method = "cmdline_hide" -> <<>>
                           [] OTHER -> showLog
                    /\ lastShown' =
                         IF method # "cmdline_show" THEN lastShown
                         ELSE [kind |-> Some(ClaimedKind(a)),
                               topic |-> IF Len(s.pubs) > Len(pubs)
                                         THEN Some(s.pubs[Len(s.pubs)].topic)
                                         ELSE lastShown.topic]
                    /\ msgLog' =
                         CASE method = "msg_start_kind" /\ a.kind \in DOMAIN msgKinds ->
                                  [msgLog EXCEPT !.kind = Some(a.kind)]
                           [] method = "msg_start_kind" /\ a.kind = "showmode" ->
                                  [msgLog EXCEPT !.macroEnd = FALSE]
                           [] method = "msg_chunk" ->
                                  [msgLog EXCEPT !.chunks = Append(@, a.data),
                                                 !.span = SpanAfter(@, a.data)]
                           [] method = "msg_end" ->
                                  [msgLog EXCEPT
                                     !.kind = None, !.chunks = <<>>,
                                     !.last = msgLog.kind,
                                     !.macroEnd = @ \/ (\E i \in (Len(pubs) + 1)..Len(s.pubs) :
                                                           s.pubs[i].topic = "vim:macro.end")]
                           [] OTHER -> msgLog
                    /\ UNCHANGED <<immediates, hasWindow>>
    /\ UNCHANGED <<current, hlVars, atlasVars, early, pc, batch, moves, generates, pre, logging>>

\* an end of batch that schedules no continuation
EndOfBatchUnscheduled ==
    /\ pc = "loop"
    /\ ix > Len(batch)
    /\ lastScrollRegion' = None
    /\ moves' = Append(moves, colors.bg)
    /\ pc' = "done"
    /\ UNCHANGED <<current, cmdcache, currentCommandMode, cursor, colors, modes,
                   currentMode, cursorStyle, immediates, getColorPending, nextAttrs,
                   commonColors, grid, hasWindow, message, spellCheckMsg,
                   capturingSpellCheckMsg, timers, hlVars, atlasVars, early, batch, ix, tx,
                   calls, pubs, generates, draws, shifts, notes, pre,
                   showLog, logging, lastShown, msgLog>>

\* after the loop: the scroll region is dropped, the cursor repainted, the
\* continuation scheduled
EndOfBatch ==
    /\ pc = "loop"
    /\ ix > Len(batch)
    /\ lastScrollRegion' = None
    /\ moves' = Append(moves, colors.bg)
    /\ immediates' = immediates + 1
    /\ pc' = "done"
    /\ UNCHANGED <<current, cmdcache, currentCommandMode, cursor, colors, modes,
                   currentMode, cursorStyle, getColorPending, nextAttrs, commonColors,
                   grid,
                   hasWindow, message, spellCheckMsg, capturingSpellCheckMsg,
                   timers, hlVars, atlasVars, early, batch, ix, tx, calls, pubs, generates,
                   draws, shifts, notes, pre,
                   showLog, logging, lastShown, msgLog>>

\* a continuation whose debounce leaves a pending timer as it is
RunImmediateKeeps ==
    /\ pc = "idle"
    /\ immediates > 0
    /\ immediates' = immediates - 1
    /\ pubs' = <<Pub("redraw", NoPayload)>>
    /\ generates' = IF initialAtlasGenerated THEN <<>> ELSE << <<colors.fg>> >>
    /\ initialAtlasGenerated' = TRUE
    /\ timeout' = IF timeout = None THEN Some(WaitTicks) ELSE timeout
    /\ pre' = Some(ProgramState)
    /\ pc' = "continuation"
    /\ UNCHANGED <<current, early, cmdcache, currentCommandMode, cursor, lastScrollRegion,
                   colors, modes, currentMode, cursorStyle, getColorPending, nextAttrs,
                   commonColors, grid, hasWindow, message, spellCheckMsg,
                   capturingSpellCheckMsg, timers, hlVars, lastTop, batch, ix, tx,
                   calls, moves, draws, shifts, notes, showLog, logging, lastShown,
                   msgLog>>

\* the setImmediate callback: the frame-complete notification, the first
\* atlas (initalFontAtlas.done, whose promise generates it with the default
\* foreground), and the debounced atlas check, which replaces the pending
\* timer by one of the whole wait
RunImmediate ==
    /\ pc = "idle"
    /\ immediates > 0
    /\ immediates' = immediates - 1
    /\ pubs' = <<Pub("redraw", NoPayload)>>
    /\ generates' = IF initialAtlasGenerated THEN <<>> ELSE << <<colors.fg>> >>
    /\ initialAtlasGenerated' = TRUE
    /\ timeout' = Some(WaitTicks)
    /\ pre' = Some(ProgramState)
    /\ pc' = "continuation"
    /\ UNCHANGED <<current, early, cmdcache, currentCommandMode, cursor, lastScrollRegion,
                   colors, modes, currentMode, cursorStyle, getColorPending, nextAttrs,
                   commonColors, grid, hasWindow, message, spellCheckMsg,
                   capturingSpellCheckMsg, timers, hlVars, lastTop, batch, ix, tx,
                   calls, moves, draws, shifts, notes, showLog, logging, lastShown,
                   msgLog>>

\* the timer of resetMsg: message.kind = 'hidden'
FireResetMsg ==
    /\ pc = "idle"
    /\ timers.resetMsg > 0
    /\ timers' = [timers EXCEPT !.resetMsg = @ - 1]
    /\ message' = [message EXCEPT !.kind = "hidden"]
    /\ UNCHANGED <<current, cmdcache, currentCommandMode, cursor, lastScrollRegion,
                   colors, modes, currentMode, cursorStyle, immediates,
                   getColorPending, nextAttrs, commonColors, grid, hasWindow,
                   spellCheckMsg,
                   capturingSpellCheckMsg, hlVars, atlasVars, early, turnVars, showLog, logging,
                   lastShown, msgLog>>

\* the timer of msg_start_kind('showmode'): the macro check
FireShowmode ==
    /\ pc = "idle"
    /\ timers.showmode > 0
    /\ timers' = [timers EXCEPT !.showmode = @ - 1]
    /\ pubs' = IF Includes(message.buffer, RecordingMark)
               THEN <<Pub("vim:macro.start",
                          [register |-> RecordingRegister(message.buffer)])>>
               ELSE <<>>
    /\ pre' = Some(ProgramState)
    /\ pc' = "timer"
    /\ UNCHANGED <<current, cmdcache, currentCommandMode, cursor, lastScrollRegion,
                   colors, modes, currentMode, cursorStyle, immediates,
                   getColorPending, nextAttrs, commonColors, grid, hasWindow, message,
                   spellCheckMsg,
                   capturingSpellCheckMsg, hlVars, atlasVars, early, batch, ix, tx, calls,
                   moves, generates, draws,
                   shifts, notes, showLog, logging, lastShown, msgLog>>

\* the timer of debounce runs: the body of regenerateFontAtlastIfNecessary
FireAtlasCheck ==
    /\ pc = "idle"
    /\ timeout = Some(0)
    /\ timeout' = None
    /\ \E topColors \in getTopColors(commonColors, TopAmount) :
           /\ generates' = IF ~sameColors(topColors)
                           THEN <<Unique(Append(topColors, colors.fg))>>
                           ELSE <<>>
           /\ lastTop' = topColors
    /\ pubs' = <<>>
    /\ pre' = Some(ProgramState)
    /\ pc' = "timer"
    /\ UNCHANGED <<current, early, renderVars, hlVars, initialAtlasGenerated, batch, ix, tx,
                   calls, moves, draws, shifts, notes, showLog, logging, lastShown,
                   msgLog>>

\* the clock advances by one tick: the pending timer has one tick less to
\* wait; a timer with no tick left waits for the event loop to run it
Tick ==
    /\ timeout # None
    /\ timeout[1] > 0
    /\ timeout' = Some(timeout[1] - 1)
    /\ UNCHANGED <<current, early, renderVars, hlVars, lastTop, initialAtlasGenerated,
                   turnVars, showLog, logging, lastShown, msgLog>>

\* getColor(mi.hl_id) is answered with the background bg (none when the
\* group has no color): the rest of the mode_info_set callback of the entry
ResolveColor(bg) ==
    /\ pc = "idle"
    /\ getColorPending # <<>>
    /\ LET mi == getColorPending[1].mi
           info == [getColorPending[1].info EXCEPT
                       !.color = IF bg # None THEN bg ELSE colors.fg]
       IN  /\ cursorStyle' = IF Some(mi.name) = currentMode /\ bg # None
                             THEN [shape |-> info.shape, size |-> info.size,
                                   color |-> bg]
                             ELSE cursorStyle
           /\ modes' = MapPut(modes, mi.name, info)
    /\ getColorPending' = Tail(getColorPending)
    /\ UNCHANGED <<current, cmdcache, currentCommandMode, cursor, lastScrollRegion,
                   colors, currentMode, immediates, nextAttrs, commonColors, grid,
                   hasWindow, message, spellCheckMsg, capturingSpellCheckMsg, timers,
                   hlVars, atlasVars, early, turnVars, showLog, logging, lastShown, msgLog>>

\* the callback returns to the event loop
Return ==
    /\ pc \in {"done", "discarded", "continuation", "call", "timer"}
    /\ pc' = "idle"
    /\ batch' = <<>>
    /\ ix' = 0
    /\ tx' = 0
    /\ calls' = <<>>
    /\ pubs' = <<>>
    /\ moves' = <<>>
    /\ generates' = <<>>
    /\ draws' = <<>>
    /\ shifts' = <<>>
    /\ notes' = <<>>
    /\ pre' = None
    /\ UNCHANGED <<current, renderVars, hlVars, atlasVars, early, showLog, logging, lastShown,
                   msgLog>>

\* ------------------------------------------------- highlight-attributes
defaultAppColors ==
    [background |-> Some("#2d2d2d"), foreground |-> Some("#dddddd"),
     special |-> Some("#a966ad")]

\* the record setDefaultColors starts from when the instance has none: {}
NoColors == [background |-> None, foreground |-> None, special |-> None]

\* getCurrentDefaultColors, for the instance i being current
DefaultColorsOf(i) ==
    IF defaultColorsMap[i] # None THEN defaultColorsMap[i][1] ELSE defaultAppColors

getCurrentDefaultColors == DefaultColorsOf(current)

\* MapMap.get
MapMapGet(m, key, subkey) ==
    IF key \notin DOMAIN m THEN None
    ELSE IF subkey \notin DOMAIN m[key] THEN None
    ELSE Some(m[key][subkey])

\* MapMap.set: the value goes into the sub-map m holds for key, or into a
\* new Map that is never put into m
MapMapSet(m, key, subkey, value) ==
    IF key \in DOMAIN m THEN [m EXCEPT ![key] = MapPut(@, subkey, value)] ELSE m

\* MapMap.has
MapMapHas(m, key, subkey) == key \in DOMAIN m /\ subkey \in DOMAIN m[key]

\* MapMap.subsize: -1 when m holds no sub-map for key
MapMapSubsize(m, key) ==
    IF key \notin DOMAIN m THEN -1 ELSE Cardinality(DOMAIN m[key])

\* getColorById(id), for the instance i being current
ColorByIdOf(i, id) ==
    LET hlgrp == MapMapGet(highlights, i, id)
    IN  IF hlgrp = None THEN [foreground |-> None, background |-> None]
        ELSE [foreground |-> hlgrp[1].foreground, background |-> hlgrp[1].background]

getColorById(id) == ColorByIdOf(current, id)

\* highlightLookup(name), for the instance i being current
LookupOf(i, name) ==
    IF name \in DOMAIN highlightInfo[i] THEN highlightInfo[i][name] ELSE {}

highlightLookup(name) == LookupOf(current, name)

\* highlightInfo.set(instances.current, name, info)
HighlightInfoSet(m, key, name, info) ==
    [m EXCEPT ![key] = MapPut(@, name, LookupOf(key, name) \cup {info})]

\* setDefaultColors(fg, bg, sp), called from outside the interpreter
setDefaultColors(fg, bg, sp) ==
    LET defaultColors == IF defaultColorsMap[current] # None
                         THEN defaultColorsMap[current][1] ELSE NoColors
        foreground == IF fg >= 0 THEN asColor(fg) ELSE defaultColors.foreground
        background == IF bg >= 0 THEN asColor(bg) ELSE defaultColors.background
        special == IF sp >= 0 THEN asColor(sp) ELSE defaultColors.special
        same == /\ defaultColors.foreground = foreground
                /\ defaultColors.background = background
                /\ defaultColors.special = special
        assigned == [foreground |-> foreground, background |-> background,
                     special |-> IF special # None THEN special
                                 ELSE defaultAppColors.special]
    IN  /\ pc = "idle"
        /\ IF same
           THEN /\ UNCHANGED <<defaultColorsMap, highlights>>
                /\ pubs' = <<>>
           ELSE /\ defaultColorsMap' = [defaultColorsMap EXCEPT ![current] = Some(assigned)]
                /\ pubs' = <<Pub("colors-changed", [fg |-> assigned.foreground,
                                                   bg |-> assigned.background])>>
                /\ highlights' = MapMapSet(highlights, current, 0,
                                           [foreground |-> foreground,
                                            background |-> background,
                                            special |-> special,
                                            underline |-> FALSE, reverse |-> FALSE])
        /\ calls' = <<[name |-> "setDefaultColors", args |-> <<fg, bg, sp>>,
                       ret |-> ~same]>>
        /\ pre' = Some(ProgramState)
        /\ pc' = "call"
        /\ UNCHANGED <<current, renderVars, highlightInfo, atlasVars, early, batch, ix, tx,
                       moves, generates,
                       draws, shifts, notes, showLog, logging, lastShown, msgLog>>

RECURSIVE AddInfos(_, _, _)
\* infos.forEach(info => highlightInfo.set(...))
AddInfos(m, id, infos) ==
    IF infos = <<>> THEN m
    ELSE AddInfos(HighlightInfoSet(m, current, infos[1].hi_name,
                                   [name |-> infos[1].hi_name,
                                    builtinName |-> infos[1].ui_name,
                                    hlid |-> id, id |-> infos[1].id,
                                    kind |-> infos[1].kind]),
                  id, Tail(infos))

\* addHighlight(id, attr, infos), called from outside the interpreter
addHighlight(id, attr, infos) ==
    /\ pc = "idle"
    /\ highlights' = MapMapSet(highlights, current, id,
           [foreground |-> IF attr.reverse THEN asColor(attr.background)
                           ELSE asColor(attr.foreground),
            background |-> IF attr.reverse THEN asColor(attr.foreground)
                           ELSE asColor(attr.background),
            special |-> asColor(attr.special),
            underline |-> attr.underline \/ attr.undercurl,
            reverse |-> attr.reverse])
    /\ highlightInfo' = AddInfos(highlightInfo, id, infos)
    /\ calls' = <<[name |-> "addHighlight", args |-> <<id, attr, infos>>]>>
    /\ pubs' = <<>>
    /\ pre' = Some(ProgramState)
    /\ pc' = "call"
    /\ UNCHANGED <<current, renderVars, defaultColorsMap, atlasVars, early, batch, ix, tx,
                   moves, generates,
                   draws, shifts, notes, showLog, logging, lastShown, msgLog>>

\* the session manager makes another instance the current one
SwitchInstance(i) ==
    /\ pc = "idle"
    /\ i # current
    /\ current' = i
    /\ UNCHANGED <<renderVars, hlVars, atlasVars, early, turnVars, showLog, logging,
                   lastShown, msgLog>>

\* --------------------------------------------------------- EarlyPromise
\* The promise jobs (reactions of then, of Promise.race) are a queue of
\* their own: the event loop runs a timer callback only when it is empty.
Requests == 1..MaxEarly

\* what getSemanticCompletions resolves to: no completion or one
CompletionLists == {<<>>, <<"a">>}

\* maybeAfter({ time: 50, or: [] })
OrDefault == <<>>

\* a request for which no EarlyPromise has been created yet
NoEarlyPromise ==
    [created |-> FALSE, promise |-> None, delayExpired |-> FALSE, timer |-> FALSE,
     race |-> None, called |-> <<>>]

Fulfilled(val) == Some([state |-> "fulfilled", value |-> val])
Rejected == Some([state |-> "rejected", value |-> <<>>])

\* the reactions discoverCompletions has on the promise, in the order it
\* registers them: that of eventually, then that of maybeAfter
Reactions(r) == <<[job |-> "eventually", of |-> r, outcome |-> None],
                  [job |-> "maybeAfter", of |-> r, outcome |-> None]>>

\* an eventually that calls back whether the delay has expired or not
eventually_always(p, val) == Append(p.called, val)

\* eventually: promise.then(val => delayExpired && cb(val))
eventually(p, val) == IF p.delayExpired THEN Append(p.called, val) ELSE p.called

\* maybeAfter, the first racer: promise.then(val => !delayExpired ? val : undefined)
maybeAfter(p, val) == IF ~p.delayExpired THEN Some(val) ELSE None

\* discoverCompletions creates the EarlyPromise of request r, registers the
\* callback with eventually and awaits maybeAfter; `done` is the list when
\* getSemanticCompletions resolves at once, and none when it awaits the server
discoverCompletions(r, done) ==
    /\ ~early.promises[r].created
    /\ early' = [early EXCEPT
                   !.promises[r] = [NoEarlyPromise EXCEPT
                                      !.created = TRUE,
                                      !.promise = IF done = None THEN None
                                                  ELSE Fulfilled(done[1]),
                                      !.timer = TRUE],
                   !.microtasks = IF done = None THEN @ ELSE @ \o Reactions(r)]
    /\ UNCHANGED rendererVars

\* the server answers request r: done(val)
ResolvePromise(r, val) ==
    /\ early.promises[r].created
    /\ early.promises[r].promise = None
    /\ early' = [early EXCEPT !.promises[r].promise = Fulfilled(val),
                              !.microtasks = @ \o Reactions(r)]
    /\ UNCHANGED rendererVars

\* the init function of request r throws
RejectPromise(r) ==
    /\ early.promises[r].created
    /\ early.promises[r].promise = None
    /\ early' = [early EXCEPT !.promises[r].promise = Rejected,
                              !.microtasks = @ \o Reactions(r)]
    /\ UNCHANGED rendererVars

\* the timer of maybeAfter runs: delayExpired = true, fin(defaultValue)
DelayExpires(r) ==
    /\ early.microtasks = <<>>
    /\ early.promises[r].timer
    /\ early' = [early EXCEPT
                   !.promises[r].timer = FALSE,
                   !.promises[r].delayExpired = TRUE,
                   !.microtasks = <<[job |-> "race", of |-> r,
                                     outcome |-> Some([by |-> "timer",
                                                       state |-> "fulfilled",
                                                       value |-> Some(OrDefault)])]>>]
    /\ UNCHANGED rendererVars

\* the first promise job of the queue runs
RunMicrotask ==
    /\ early.microtasks # <<>>
    /\ LET m == Head(early.microtasks)
           r == m.of
           p == early.promises[r]
           rest == Tail(early.microtasks)
       IN  early' =
             CASE m.job = "eventually" ->
                    [early EXCEPT
                       !.promises[r].called =
                           IF p.promise[1].state = "fulfilled"
                           THEN eventually(p, p.promise[1].value) ELSE @,
                       !.microtasks = rest]
               [] m.job = "maybeAfter" ->
                    [early EXCEPT
                       !.microtasks =
                           Append(rest,
                                  [job |-> "race", of |-> r,
                                   outcome |->
                                     Some([by |-> "promise",
                                           state |-> p.promise[1].state,
                                           value |->
                                             IF p.promise[1].state = "fulfilled"
                                             THEN maybeAfter(p, p.promise[1].value)
                                             ELSE None])])]
               [] m.job = "race" ->
                    [early EXCEPT
                       !.promises[r].race = IF @ = None THEN m.outcome ELSE @,
                       !.microtasks = rest]
    /\ UNCHANGED rendererVars

\* ----------------------------------------------------------------- Init
InitProgram ==
    /\ current = 1
    /\ early = [promises |-> [r \in Requests |-> NoEarlyPromise], microtasks |-> <<>>]
    /\ cmdcache = [active |-> FALSE, position |-> -999, cmd |-> None]
    /\ currentCommandMode = None
    /\ cursor = [row |-> 0, col |-> 0]
    /\ lastScrollRegion = None
    /\ colors = [fg |-> Some("#dddddd"), bg |-> Some("#2d2d2d"), sp |-> Some("#ef5188")]
    /\ modes = EmptyMap
    /\ currentMode = None
    /\ cursorStyle = [shape |-> "block", size |-> None, color |-> None]
    /\ immediates = 0
    /\ getColorPending = <<>>
    /\ nextAttrs = [fg |-> colors.fg, bg |-> colors.bg, sp |-> colors.sp,
                    underline |-> FALSE, undercurl |-> FALSE]
    /\ grid = [cells |-> [row \in 0..(GridRows - 1) |->
                            [col \in 0..(GridCols - 1) |-> BlankCell(colors.bg)]],
               fg |-> colors.fg, bg |-> colors.bg, sp |-> colors.sp]
    /\ message = [buffer |-> <<>>, kind |-> "info"]
    /\ spellCheckMsg = <<>>
    /\ capturingSpellCheckMsg = FALSE
    /\ timers = [resetMsg |-> 0, showmode |-> 0]
    /\ commonColors = <<>>
    /\ lastTop = <<>>
    /\ initialAtlasGenerated = FALSE
    /\ timeout = None
    /\ defaultColorsMap = [i \in Instances |-> None]
    /\ highlights = EmptyMap
    /\ highlightInfo = [i \in Instances |-> EmptyMap]
    /\ pc = "idle"
    /\ batch = <<>>
    /\ ix = 0
    /\ tx = 0
    /\ calls = <<>>
    /\ pubs = <<>>
    /\ moves = <<>>
    /\ generates = <<>>
    /\ draws = <<>>
    /\ shifts = <<>>
    /\ notes = <<>>
    /\ pre = None
    /\ showLog = <<>>
    /\ lastShown = [kind |-> None, topic |-> None]
    /\ msgLog = [kind |-> None, chunks |-> <<>>, last |-> None, macroEnd |-> FALSE,
                 span |-> None]

Init == InitProgram /\ logging = FALSE /\ hasWindow = TRUE

\* ------------------------------------------------------------ the inputs
Event(name, args) == [name |-> name, args |-> args]
Void == [void |-> TRUE]
Piece(item) == [attr |-> 0, item |-> item]
Show(content, position, opChar, prompt) ==
    [content |-> content, position |-> position, opChar |-> opChar, prompt |-> prompt]

\* all batches of at most n events drawn from the set events
BatchesOf(events, n) == UNION {[1..k -> events] : k \in 0..n}

\* the events of the dispatch specification: command-line events, an event
\* render.ts registers no handler for, a put and a cursor_goto of two tuples
DispatchEvents ==
    {Event("cmdline_show", <<Show(<<Piece("a")>>, p, ":", "")>>) : p \in {1, 2}}
    \cup {Event("cmdline_hide", <<Void>>),
          Event("grid_line", <<Void>>),
          Event("put", <<[ch |-> "x"], [ch |-> "y"]>>),
          Event("cursor_goto", <<[row |-> 0, col |-> 1], [row |-> 0, col |-> 0]>>)}

Loop == SkipUnknown \/ CallPut \/ CallHandler \/ EndOfBatch \/ Return \/ RunImmediate

Next == (\E m \in BatchesOf(DispatchEvents, MaxBatch) : OnRedraw(m)) \/ Loop

Spec == Init /\ [][Next]_vars

\* all contents of 1..n pieces over the items "h" and "i"
Contents(n) == UNION {[1..k -> {Piece("h"), Piece("i")}] : k \in 1..n}

\* the events of the echo specification: the command line echoed back with
\* one of two contents at one of two positions, and hidden
EchoEvents ==
    {Event("cmdline_show", <<Show(c, p, ":", "")>>) : c \in Contents(1), p \in {1, 2}}
    \cup {Event("cmdline_hide", <<Void>>)}

InitEcho == InitProgram /\ logging = TRUE /\ hasWindow = TRUE

LoopCmdline == CallHandler \/ EndOfBatch \/ Return \/ RunImmediate

NextEcho == (\E m \in BatchesOf(EchoEvents, MaxEchoBatch) : OnRedraw(m)) \/ LoopCmdline

SpecEcho == InitEcho /\ [][NextEcho]_vars

\* one event per batch, or none
Single(events) == BatchesOf(events, 1)

\* the events of the kind specification: contents of up to MaxPieces
\* pieces, every first character (":", "/", "?" and one the table does not
\* hold) with and without a prompt; the command line hidden, the cursor
\* moved in it
KindEvents ==
    {Event("cmdline_show", <<Show(c, p, o, q)>>) :
        c \in Contents(MaxPieces), p \in {1, 2}, o \in {":", "/", "?", "@"},
        q \in {"", "p"}}
    \cup {Event("cmdline_hide", <<Void>>),
          Event("cmdline_pos", <<[position |-> 3]>>)}

NextKind == (\E m \in Single(KindEvents) : OnRedraw(m)) \/ LoopCmdline

SpecKind == Init /\ [][NextKind]_vars

\* the events of the position specification: the command line as Neovim
\* opens it (":", "/", "?", or a prompt with no first character), hidden,
\* and the cursor moved in it
PosEvents ==
    {Event("cmdline_show", <<Show(c, p, oq[1], oq[2])>>) :
        c \in Contents(1), p \in {1, 2},
        oq \in {<<":", "">>, <<"/", "">>, <<"?", "">>, <<"", "p">>}}
    \cup {Event("cmdline_hide", <<Void>>),
          Event("cmdline_pos", <<[position |-> 3]>>)}

NextPos == (\E m \in Single(PosEvents) : OnRedraw(m)) \/ LoopCmdline

SpecPos == Init /\ [][NextPos]_vars

\* the events of the isolation specification: one that changes the command
\* line, one the mode table, one the default background
IsoEvents ==
    {Event("cmdline_show", <<Show(<<Piece("h")>>, 1, ":", "")>>),
     Event("mode_info_set",
           <<[infos |-> <<[name |-> "normal", cursor_shape |-> "vertical",
                           cell_percentage |-> Some(25), hl_id |-> 0]>>]>>),
     Event("update_bg", <<[color |-> 1]>>)}

HlIds == {0, 1}
HlNames == {"Normal"}
HlAttrs ==
    {[foreground |-> 1, background |-> 2, special |-> 0, reverse |-> r,
      underline |-> FALSE, undercurl |-> FALSE] : r \in BOOLEAN}
HlInfos ==
    {<<>>, <<[kind |-> "ui", ui_name |-> "Normal", hi_name |-> "Normal", id |-> 1]>>}

NextIso ==
    \/ \E m \in Single(IsoEvents) : OnRedraw(m)
    \/ LoopCmdline
    \/ \E i \in Instances : SwitchInstance(i)
    \/ \E fg \in {-1, 1}, bg \in {-1, 2} : setDefaultColors(fg, bg, -1)
    \/ \E id \in HlIds, attr \in HlAttrs, infos \in HlInfos : addHighlight(id, attr, infos)

SpecIso == Init /\ [][NextIso]_vars

\* the default-colors specification: every channel left alone (-1), zero,
\* or a color of its own, for either instance
NextColors ==
    \/ \E fg \in {-1, 0, 1}, bg \in {-1, 0, 2}, sp \in {-1, 0, 3} :
          setDefaultColors(fg, bg, sp)
    \/ \E i \in Instances : SwitchInstance(i)
    \/ Return

SpecColors == Init /\ [][NextColors]_vars

\* the events of the grid specification: the cursor sent into the grid, to
\* its last column and below its last row; a put of two characters and one
\* of none; a new default background
GridGotos ==
    {Event("cursor_goto", <<[row |-> rc[1], col |-> rc[2]]>>) :
        rc \in {<<0, 0>>, <<0, GridCols - 1>>, <<GridRows, 0>>}}
GridPuts == {Event("put", <<[ch |-> "a"], [ch |-> "b"]>>), Event("put", <<>>)}
GridColors == {Event("update_bg", <<[color |-> 1]>>)}

\* one event, or a put and a color change in either order, or two puts
GridBatches ==
    Single(GridGotos \cup GridPuts \cup GridColors)
    \cup {<<e1, e2>> : e1 \in GridPuts \cup GridColors, e2 \in GridPuts \cup GridColors}

InitGrid == InitProgram /\ logging = FALSE /\ hasWindow \in BOOLEAN

LoopGrid == CallPut \/ CallHandler \/ EndOfBatch \/ Return \/ RunImmediate

NextGrid == (\E m \in GridBatches : OnRedraw(m)) \/ LoopGrid

SpecGrid == InitGrid /\ [][NextGrid]_vars

\* the events of the message specification: every kind the table knows and
\* showmode, two chunks of plain text, the end of a message
MsgStart(kind) == Event("msg_start_kind", <<[kind |-> kind]>>)
MsgChunk(data) == Event("msg_chunk", <<[data |-> data]>>)
MsgEnd == Event("msg_end", <<Void>>)
PlainChunks == {<<"o", "k">>, <<"n", "o">>}
MsgEvents ==
    {MsgStart(kind) : kind \in DOMAIN msgKinds \cup {"showmode"}}
    \cup {MsgChunk(data) : data \in PlainChunks}
    \cup {MsgEnd}

\* the batches of the message specification: one event, or a whole message
\* of a known kind with no chunk, one chunk or two chunks
MsgBatches ==
    Single(MsgEvents)
    \cup {<<MsgStart(kind), MsgEnd>> : kind \in DOMAIN msgKinds}
    \cup {<<MsgStart(kind), MsgChunk(c), MsgEnd>> :
             kind \in DOMAIN msgKinds, c \in PlainChunks}
    \cup {<<MsgStart(kind), MsgChunk(c), MsgChunk(d), MsgEnd>> :
             kind \in DOMAIN msgKinds, c \in PlainChunks, d \in PlainChunks}

LoopMsg ==
    CallHandler \/ EndOfBatch \/ Return \/ RunImmediate \/ FireResetMsg \/ FireShowmode

NextMsg == (\E m \in MsgBatches : OnRedraw(m)) \/ LoopMsg

SpecMsg == Init /\ [][NextMsg]_vars

\* the texts msg_end treats apart: the startup sentinel and the
\* announcement of a macro recording into the register q
Sentinel == <<"<">>
RecordingQ == RecordingMark \o <<"q">>

\* the events of the macro specification: a known kind and showmode, the
\* sentinel, the announcement and a plain chunk, the end of a message
MacroEvents ==
    {MsgStart("emsg"), MsgStart("showmode"), MsgEnd}
    \cup {MsgChunk(data) : data \in {Sentinel, RecordingQ, <<"o", "k">>}}

\* the batches of the macro specification: one event; the sentinel as a
\* message; the announcement as a message, with and without showmode; an
\* error message and a message of no kind after it
MacroBatches ==
    Single(MacroEvents)
    \cup {<<MsgChunk(Sentinel), MsgEnd>>,
          <<MsgChunk(RecordingQ), MsgEnd>>,
          <<MsgStart("showmode"), MsgChunk(RecordingQ), MsgEnd>>,
          <<MsgStart("emsg"), MsgChunk(<<"o", "k">>), MsgEnd,
            MsgChunk(<<"o", "k">>), MsgEnd>>}

NextMacro == (\E m \in MacroBatches : BufferWithinBounds(m) /\ OnRedraw(m)) \/ LoopMsg

SpecMacro == Init /\ [][NextMacro]_vars

\* the chunks of the spell-check specification: the start of a prompt, its
\* end, both in one chunk, and a plain chunk
SpellStart == ChangeMark \o <<"x">> \o ToMark
SpellChunks == {SpellStart, EnterMark, SpellStart \o EnterMark, <<"o", "k">>}
SpellEvents == {MsgChunk(data) : data \in SpellChunks} \cup {MsgEnd}

\* the side buffer stays within MaxSpell chunks
SpellWithinBounds(m) ==
    Len(spellCheckMsg) + Cardinality(TuplesOf(m, "msg_chunk")) <= MaxSpell

LoopSpell == CallHandler \/ EndOfBatch \/ Return \/ RunImmediate \/ FireResetMsg

NextSpell ==
    (\E m \in BatchesOf(SpellEvents, 2) : SpellWithinBounds(m) /\ OnRedraw(m))
    \/ LoopSpell

SpecSpell == Init /\ [][NextSpell]_vars

\* the attributes of a highlight_set; 0 is a color that is not given
Attrs(fg, bg, reverse) ==
    [foreground |-> fg, background |-> bg, special |-> 0, reverse |-> reverse,
     underline |-> FALSE, undercurl |-> FALSE]

\* the events of the atlas specification: TopAmount foregrounds in one
\* highlight_set, the default foreground (one color more), and the first
\* of the colors again as the background of a reversed highlight
AtlasEvents ==
    {Event("highlight_set", [fg \in 1..TopAmount |-> Attrs(fg, 0, FALSE)]),
     Event("highlight_set", <<Attrs(0, 0, FALSE)>>),
     Event("highlight_set", <<Attrs(0, 1, TRUE)>>)}

\* no color is recorded more than MaxCount times
CountsWithinBounds == \A c \in DOMAIN commonColors : commonColors[c] < MaxCount

LoopAtlas ==
    CallHandler \/ EndOfBatch \/ Return \/ RunImmediate \/ FireAtlasCheck \/ Tick

NextAtlas ==
    (\E m \in Single(AtlasEvents) : CountsWithinBounds /\ OnRedraw(m)) \/ LoopAtlas

SpecAtlas == Init /\ [][NextAtlas]_vars

\* the debounce specification: batches of one highlight_set or of nothing,
\* under the scheduling of the event loop: a callback that runs goes on to
\* its end, the clock goes on, and a continuation or a timer that is due
\* again and again is run
NextDebounce ==
    (\E m \in Single({Event("highlight_set", <<Attrs(0, 0, FALSE)>>)}) :
        CountsWithinBounds /\ OnRedraw(m))
    \/ LoopAtlas

SpecDebounce ==
    /\ Init
    /\ [][NextDebounce]_vars
    /\ WF_vars(CallHandler \/ EndOfBatch \/ Return)
    /\ WF_vars(Tick)
    /\ SF_vars(RunImmediate)
    /\ SF_vars(FireAtlasCheck)

\* the frame specification: batches of up to two events (a cmdline_show,
\* a cmdline_hide, an event without handler), under the scheduling of the
\* event loop: a callback that runs goes on to its end, and a continuation
\* that is due again and again is run
FrameEvents ==
    {Event("cmdline_show", <<Show(<<Piece("a")>>, 1, ":", "")>>),
     Event("cmdline_hide", <<Void>>),
     Event("grid_line", <<Void>>)}

LoopFrame == SkipUnknown \/ CallHandler \/ EndOfBatch \/ Return

NextFrame ==
    (\E m \in BatchesOf(FrameEvents, 2) : OnRedraw(m)) \/ LoopFrame \/ RunImmediate

SpecFrame ==
    /\ Init
    /\ [][NextFrame]_vars
    /\ WF_vars(LoopFrame)
    /\ SF_vars(RunImmediate)

\* the modes of the mode specification and what a mode_info_set says of
\* each: the shape and the size of the cursor
ModeNames == {"normal", "insert"}
ShapeIn(name) == IF name = "normal" THEN "vertical" ELSE "horizontal"
SizeIn(name) == IF name = "normal" THEN Some(25) ELSE Some(20)
ModeInfo(name, hl_id) ==
    [name |-> name, cursor_shape |-> ShapeIn(name), cell_percentage |-> SizeIn(name),
     hl_id |-> hl_id]

SetModeInfo(name, hl_id) ==
    Event("mode_info_set", <<[infos |-> <<ModeInfo(name, hl_id)>>]>>)
ChangeMode(name) == Event("mode_change", <<[mode |-> name]>>)

\* the events of the mode specification: a mode_info_set of one mode, with
\* and without a highlight id, and a mode_change to each mode and to one
\* no mode_info_set names
ModeEvents ==
    {SetModeInfo("normal", 0), SetModeInfo("insert", 0), SetModeInfo("insert", 1)}
    \cup {ChangeMode(name) : name \in ModeNames \cup {"visual"}}

\* its batches: one event, or a mode_change after a mode_info_set or
\* after another mode_change
ModeBatches ==
    Single(ModeEvents)
    \cup {<<SetModeInfo("insert", 1), ChangeMode("insert")>>,
          <<ChangeMode("insert"), ChangeMode("visual")>>}

RECURSIVE Lookups(_)
\* the getColor lookups the batch m starts
Lookups(m) ==
    IF m = <<>> THEN 0
    ELSE (IF m[1].name = "mode_info_set" /\ m[1].args[1].infos[1].hl_id # 0
          THEN 1 ELSE 0) + Lookups(Tail(m))

LoopModes == CallHandler \/ EndOfBatch \/ Return \/ RunImmediate

AnswerColor == \E bg \in {None, Some("#00ff00")} : ResolveColor(bg)

NextModes ==
    \/ \E m \in ModeBatches :
          Len(getColorPending) + Lookups(m) <= MaxLookups /\ OnRedraw(m)
    \/ LoopModes
    \/ AnswerColor

\* under the scheduling of the event loop: a callback that runs goes on to
\* its end, and every lookup is answered
SpecModes ==
    /\ Init
    /\ [][NextModes]_vars
    /\ WF_vars(LoopModes)
    /\ WF_vars(AnswerColor)

\* the completion specification: up to MaxEarly requests, each answered at
\* once, later or never, each with its own timer
NextEarly ==
    \/ \E r \in Requests, done \in {None} \cup {Some(val) : val \in CompletionLists} :
          discoverCompletions(r, done)
    \/ \E r \in Requests, val \in CompletionLists : ResolvePromise(r, val)
    \/ \E r \in Requests : RejectPromise(r)
    \/ \E r \in Requests : DelayExpires(r)
    \/ RunMicrotask

SpecEarly == Init /\ [][NextEarly]_vars

\* the values of the color specification: zero, one, the ends of the three
\* bytes, a color with six different digits, and the largest color
ColorSamples == {0, 1, 255, 256, 65536, 11259375, 16777215}

\* the events of the color specification: a default special color of every
\* sample, and a highlight_set with a foreground of zero or of another color
ColorEvents ==
    {Event("update_sp", <<[color |-> v]>>) : v \in ColorSamples}
    \cup {Event("highlight_set", <<Attrs(v, 0, FALSE)>>) : v \in {0, 11259375}}

\* the color specification: these events one per batch, and setDefaultColors
\* with a foreground of zero, of one and of the largest color
NextResolve ==
    \/ \E m \in Single(ColorEvents) : CountsWithinBounds /\ OnRedraw(m)
    \/ LoopCmdline
    \/ \E fg \in {0, 1, 16777215} : setDefaultColors(fg, -1, -1)

SpecResolve == Init /\ [][NextResolve]_vars

\* the default-color events: every channel with the value that leaves it
\* alone (-1), with zero and with a color
Channels == {"fg", "bg", "sp"}
UpdateEvents ==
    {Event("update_" \o ch, <<[color |-> v]>>) : ch \in Channels, v \in {-1, 0, 1}}

\* its batches: one update, a put, a cursor_goto to the first cell
NextUpdate ==
    (\E m \in Single(UpdateEvents \cup {Event("put", <<[ch |-> "a"]>>),
                                       Event("cursor_goto", <<[row |-> 0, col |-> 0]>>)}) :
        OnRedraw(m))
    \/ LoopGrid

SpecUpdate == Init /\ [][NextUpdate]_vars

\* the regions of the scroll specification: the whole grid, and the grid
\* below its first row
ScrollRegions ==
    {[top |-> t, bottom |-> GridRows - 1, left |-> 0, right |-> GridCols - 1] :
        t \in {0, 1}}
SetRegion(R) == Event("set_scroll_region", <<R>>)

\* scroll amounts: up to MaxScroll rows up or down
ScrollAmounts == (1..MaxScroll) \cup {-n : n \in 1..MaxScroll}
Scroll(n) == Event("scroll", <<[amount |-> n]>>)

\* a character put at the start of a row
MarkRow(row) ==
    <<Event("cursor_goto", <<[row |-> row, col |-> 0]>>), Event("put", <<[ch |-> "a"]>>)>>

\* the batches of the scroll specification: a row marked; a new background;
\* a region set or a scroll alone; a region and a scroll; a region and two
\* scrolls; a scroll and its opposite, each with the region set before it
ScrollBatches ==
    {MarkRow(row) : row \in 0..(GridRows - 1)}
    \cup Single({Event("update_bg", <<[color |-> 1]>>)}
                \cup {SetRegion(R) : R \in ScrollRegions}
                \cup {Scroll(n) : n \in ScrollAmounts})
    \cup {<<SetRegion(R), Scroll(n)>> : R \in ScrollRegions, n \in ScrollAmounts}
    \cup {<<SetRegion(R), Scroll(n), Scroll(k)>> :
             R \in ScrollRegions, n \in ScrollAmounts, k \in {1, -1}}
    \cup {<<SetRegion(R), Scroll(n), SetRegion(R), Scroll(-n)>> :
             R \in ScrollRegions, n \in 1..MaxScroll}

NextScroll == (\E m \in ScrollBatches : OnRedraw(m)) \/ LoopGrid

SpecScroll == InitGrid /\ [][NextScroll]_vars

\* ======================================================================
\* The claims
\* ======================================================================

\* the calls one event asks for: none for a name without handler, one with
\* all the tuples for put, one per tuple in the order given otherwise
ExpectedCallsOf(e) ==
    IF e.name \notin api THEN <<>>
    ELSE IF e.name = "put" THEN <<[name |-> "put", args |-> e.args]>>
    ELSE [i \in 1..Len(e.args) |-> [name |-> e.name, args |-> <<e.args[i]>>]]

RECURSIVE ExpectedCalls(_)
ExpectedCalls(m) ==
    IF m = <<>> THEN <<>> ELSE ExpectedCallsOf(m[1]) \o ExpectedCalls(Tail(m))

\* the batch begins with a cmdline_show at the cached position of an active
\* command line, judged on the state the callback began in
BeginsWithSameShow ==
    /\ Len(batch) > 0
    /\ batch[1].name = "cmdline_show"
    /\ pre[1].cmdcache.active
    /\ batch[1].args[1].position = pre[1].cmdcache.position

InOnRedraw == pc \in {"loop", "done", "discarded"}

\* C1: within one batch the handler calls are made strictly in array order:
\* at every point of the loop the calls made so far are those of the events
\* before the current one followed by those of the tuples before the current
\* one, one call per tuple in the order given and a single call with all
\* the tuples for put; when the batch ends the calls are exactly those of the
\* whole batch.
C1_ArrayOrder ==
    /\ pc = "done" => calls = ExpectedCalls(batch)
    /\ pc = "loop" =>
         calls = ExpectedCalls(SubSeq(batch, 1, ix - 1))
                   \o (IF ix <= Len(batch)
                       THEN SubSeq(ExpectedCallsOf(batch[ix]), 1, tx - 1)
                       ELSE <<>>)

\* C1 witness: a batch of a two-tuple cursor_goto followed by a two-tuple put
\* has ended with its three calls made
C1_Witness ==
    /\ pc = "done"
    /\ Len(batch) = 2
    /\ batch[1].name = "cursor_goto" /\ Len(batch[1].args) = 2
    /\ batch[2].name = "put" /\ Len(batch[2].args) = 2
    /\ Len(calls) = 3
    /\ calls[3].args = batch[2].args

\* the events of a batch that have a handler
Recognized(m) == SelectSeq(m, LAMBDA e : e.name \in api)

\* C2: the step of the loop over an event without handler changes no state,
\* publishes nothing, calls nothing and moves on to the next event; and when
\* the batch ends every recognized event of it, before and after the unknown
\* one, has had its handler calls, and the end-of-batch bookkeeping has run
\* (scroll region dropped, cursor repainted once, one continuation scheduled).
C2_UnknownSkipped ==
    /\ [][(AtEvent /\ batch[ix].name \notin api) =>
            /\ ProgramState' = ProgramState
            /\ <<pubs, calls, moves, batch>>' = <<pubs, calls, moves, batch>>
            /\ pc' = "loop"
            /\ ix' = ix + 1]_vars
    /\ [](pc = "done" =>
            /\ calls = ExpectedCalls(Recognized(batch))
            /\ lastScrollRegion = None
            /\ moves = <<colors.bg>>
            /\ immediates = pre[1].immediates + 1)

\* C2 witness: a batch with an unknown event between two recognized ones has
\* ended, both recognized events applied
C2_Witness ==
    /\ pc = "done"
    /\ Len(batch) = 3
    /\ batch[1].name = "cmdline_show"
    /\ batch[2].name \notin api
    /\ batch[3].name = "put"
    /\ Len(calls) = 2
    /\ cmdcache.active
    /\ cursor.col = pre[1].cursor.col + 2

\* C3: a batch that consists solely of one cmdline_show whose position is the
\* cached position of an active command line is discarded: no handler is
\* called, the program state is the one the callback began in, nothing is
\* published and no continuation (frame-complete) is scheduled.
C3_SoleSameShowDiscarded ==
    (InOnRedraw /\ Len(batch) = 1 /\ BeginsWithSameShow) =>
        /\ pc = "discarded"
        /\ ProgramState = pre[1]
        /\ calls = <<>>
        /\ pubs = <<>>
        /\ moves = <<>>

\* C3 witness: such a batch has been discarded
C3_Witness ==
    /\ pc = "discarded"
    /\ Len(batch) = 1
    /\ cmdcache.active
    /\ batch[1].args[1].position = cmdcache.position

\* C4 (as claimed): a batch that begins with such a cmdline_show and holds
\* further events is not discarded, and its later recognized events are applied.
C4_OnlySoleShowDiscarded ==
    (pc \in {"done", "discarded"} /\ Len(batch) > 1 /\ BeginsWithSameShow) =>
        /\ pc = "done"
        /\ calls = ExpectedCalls(batch)

\* ---------------------------------------------------------------- C5
\* the last two cmdline_show tuples issued, no cmdline_hide between them,
\* carry the same content and the same position
SamePair ==
    /\ logging
    /\ Len(showLog) = 2
    /\ showLog[1].cmd = showLog[2].cmd
    /\ showLog[1].position = showLog[2].position

\* C5 as stated: two cmdline_show with identical (content, position), no
\* cmdline_hide between them, publish the update exactly once between them,
\* whether they come in one batch or in two.
C5_ExactlyOnce ==
    SamePair => showLog[1].updates + showLog[2].updates = 1

\* C5 amended: two cmdline_show with identical (content, position), no
\* cmdline_hide between them, publish the update at most once between them:
\* exactly once, by the first, when the first is applied while the cached
\* content differs from its content; not at all when the first is applied
\* while its content is already the cached one.
C5_AtMostOnce ==
    SamePair =>
        /\ showLog[1].updates + showLog[2].updates <= 1
        /\ (showLog[1].applied /\ showLog[1].differed) =>
               (showLog[1].updates = 1 /\ showLog[2].updates = 0)
        /\ (showLog[1].applied /\ ~showLog[1].differed) =>
               (showLog[1].updates = 0 /\ showLog[2].updates = 0)

\* the second of the pair arrived alone in a later batch and was discarded,
\* the first had published the update
C5_Witness ==
    /\ SamePair
    /\ pc = "discarded"
    /\ Len(batch) = 1
    /\ showLog[1].applied /\ showLog[1].updates = 1
    /\ ~showLog[2].applied /\ showLog[2].updates = 0

\* ---------------------------------------------------------------- C6
\* the loop is about to call the cmdline_show handler
AtShow ==
    /\ AtEvent
    /\ batch[ix].name = "cmdline_show"
    /\ tx <= Len(batch[ix].args)

\* ... with a content equal to the cached content
AtSameContentShow ==
    AtShow /\ cmdcache.cmd = Some(ConcatAll(batch[ix].args[tx].content))

\* C6 as stated: a cmdline_show whose content equals the cached content
\* publishes nothing and leaves the whole cached command-line state (active,
\* position, content, last known kind) unchanged, also when its position
\* differs from the cached one.
C6_SameContentNoOp ==
    [][AtSameContentShow =>
          /\ pubs' = pubs
          /\ cmdcache' = cmdcache
          /\ currentCommandMode' = currentCommandMode]_vars

\* C6 amended: a cmdline_show whose content equals the cached content
\* publishes nothing and leaves the cached content and the last known kind
\* unchanged; the cache stays active and its position becomes the position
\* of the event.
C6_SameContentKeepsContent ==
    [][AtSameContentShow =>
          /\ pubs' = pubs
          /\ cmdcache' = [active |-> TRUE,
                          position |-> batch[ix].args[tx].position,
                          cmd |-> cmdcache.cmd]
          /\ currentCommandMode' = currentCommandMode]_vars

\* a cmdline_show with the cached content and another position was applied:
\* nothing published, the cached position moved
C6_Witness ==
    /\ logging
    /\ pc \in {"loop", "done"}
    /\ Len(showLog) = 2
    /\ showLog[2].applied /\ ~showLog[2].differed /\ showLog[2].updates = 0
    /\ showLog[1].applied
    /\ showLog[1].cmd = showLog[2].cmd
    /\ showLog[1].position # showLog[2].position
    /\ pre[1].cmdcache.position = showLog[1].position
    /\ cmdcache.position = showLog[2].position
    /\ cmdcache.cmd = Some(showLog[2].cmd)
    /\ calls # <<>> /\ calls[Len(calls)].name = "cmdline_show"

\* ---------------------------------------------------------------- C8
AtHide ==
    /\ AtEvent
    /\ batch[ix].name = "cmdline_hide"
    /\ tx <= Len(batch[ix].args)

UpdateTopics == {"cmd.update", "search.update"}

\* C8: cmdline_hide resets the cache to inactive, position -999 and no
\* content and publishes exactly one cmd.hide and one search.hide; whenever
\* the cache is inactive its position is -999 and it holds no content; so a
\* cmdline_show applied while the cache is inactive publishes an update,
\* whatever its content.
C8_HideResets ==
    /\ [](~cmdcache.active => (cmdcache.position = -999 /\ cmdcache.cmd = None))
    /\ [][AtHide =>
             /\ cmdcache' = [active |-> FALSE, position |-> -999, cmd |-> None]
             /\ pubs' = pubs \o <<Pub("cmd.hide", NoPayload),
                                   Pub("search.hide", NoPayload)>>]_vars
    /\ [][(AtShow /\ ~cmdcache.active) =>
             /\ Len(pubs') = Len(pubs) + 1
             /\ pubs'[Len(pubs')].topic \in UpdateTopics
             /\ pubs'[Len(pubs')].payload.cmd
                  = Some(ConcatAll(batch[ix].args[tx].content))]_vars

\* one batch hid the command line and showed it again with the content it
\* had before the batch: both hides and the update were published
C8_Witness ==
    /\ pc = "done"
    /\ Len(batch) = 2
    /\ batch[1].name = "cmdline_hide"
    /\ batch[2].name = "cmdline_show"
    /\ pre[1].cmdcache.cmd = Some(ConcatAll(batch[2].args[1].content))
    /\ Len(pubs) = 3
    /\ pubs[1].topic = "cmd.hide" /\ pubs[2].topic = "search.hide"
    /\ pubs[3].topic = "cmd.update"
    /\ pubs[3].payload.cmd = pre[1].cmdcache.cmd

\* ---------------------------------------------------------------- C7
\* the topic documented for a kind
TopicOfKind(kind) ==
    IF kind \in {"Ex", "Prompt"} THEN "cmd.update" ELSE "search.update"

\* C7: a cmdline_show whose content differs from the cached content
\* publishes exactly one update that carries the concatenated content, the
\* position and the kind (Ex for ":" and any unrecognized character,
\* SearchForward for "/", SearchBackward for "?", Prompt whenever the prompt
\* is non-empty), Ex and Prompt on cmd.update and the search kinds on
\* search.update, so that no Prompt update goes out on search.update.
C7_UpdateKindAndTopic ==
    [][(AtShow /\ ~AtSameContentShow) =>
          LET a == batch[ix].args[tx]
              kind == ClaimedKind(a)
          IN  pubs' = Append(pubs, Pub(TopicOfKind(kind),
                                       Payload(Some(ConcatAll(a.content)),
                                               Some(kind), Some(a.position))))]_vars

\* ---------------------------------------------------------------- C9
AtPos ==
    /\ AtEvent
    /\ batch[ix].name = "cmdline_pos"
    /\ tx <= Len(batch[ix].args)

PosUpdate(topic) ==
    Pub(topic, Payload(None, None, Some(batch[ix].args[tx].position)))

\* C9 as stated: once a cmdline_show was applied, cmdline_pos(p) publishes
\* exactly one position-only update, on the topic of the kind of the most
\* recent cmdline_show applied: cmd.update if that event classified as Ex or
\* Prompt, search.update if it classified as a search.
C9_PosFollowsLastShow ==
    [][(AtPos /\ lastShown.kind # None) =>
          pubs' = Append(pubs, PosUpdate(TopicOfKind(lastShown.kind[1])))]_vars

\* C9 amended: once a cmdline_show was applied, cmdline_pos(p) publishes
\* exactly one position-only update, on the topic on which the most recent
\* cmdline_show update was published; a cmdline_show that published nothing
\* because its content was the cached one does not change the topic.
C9_PosFollowsLastUpdate ==
    [][(AtPos /\ lastShown.kind # None) =>
          /\ lastShown.topic # None
          /\ pubs' = Append(pubs, PosUpdate(lastShown.topic[1]))]_vars

\* the most recent cmdline_show was a search that published nothing, the
\* update before it went to cmd.update, and so did the position
C9_Witness ==
    /\ pc = "done"
    /\ Len(batch) = 1
    /\ batch[1].name = "cmdline_pos"
    /\ lastShown.kind = Some("SearchForward")
    /\ lastShown.topic = Some("cmd.update")
    /\ pubs = <<Pub("cmd.update", Payload(None, None, Some(batch[1].args[1].position)))>>

\* --------------------------------------------------------------- C10
\* everything instance b observes while it is the current one
ObservedBy(b) ==
    [defaultColors |-> DefaultColorsOf(b),
     colorById |-> [id \in HlIds |-> ColorByIdOf(b, id)],
     lookup |-> [n \in HlNames |-> LookupOf(b, n)],
     colors |-> colors,
     modes |-> modes,
     cmdline |-> [cache |-> cmdcache, kind |-> currentCommandMode]]

\* C10: instance isolation. Whatever is done while an instance a is the
\* current one (setDefaultColors, addHighlight, redraw events that change
\* the default colors, the mode table, the command-line cache) leaves
\* unchanged what any other instance b observes: its default colors, its
\* getColorById and highlightLookup results, its mode table and its
\* command-line state.
C10_InstanceIsolation ==
    [][\A b \in Instances :
          (current # b /\ current' = current) => ObservedBy(b)' = ObservedBy(b)]_vars

\* --------------------------------------------------------------- C11
\* setDefaultColors has just returned
AfterSetDefaultColors ==
    pc = "call" /\ calls[1].name = "setDefaultColors"

\* C11: after a setDefaultColors call that returns true, getColorById(0)
\* for the same current instance returns exactly the new resolved foreground
\* and background.
C11_DefaultGroupFollows ==
    (AfterSetDefaultColors /\ calls[1].ret) =>
        getColorById(0) = [foreground |-> getCurrentDefaultColors.foreground,
                           background |-> getCurrentDefaultColors.background]

\* --------------------------------------------------------------- C12
\* C12: setDefaultColors returns true exactly when the call changes the
\* default-color record of the current instance; when it returns false it
\* publishes nothing and changes no state; when it returns true it publishes
\* exactly one colors-changed with the new fg and bg.  (A second call with
\* the same arguments finds the record it would write and so must return
\* false, whatever the arguments, zero included.)
C12_ReturnsWhetherChanged ==
    AfterSetDefaultColors =>
        /\ calls[1].ret <=> (defaultColorsMap[current] # pre[1].defaultColorsMap[current])
        /\ ~calls[1].ret => (pubs = <<>> /\ ProgramState = pre[1])
        /\ calls[1].ret =>
              pubs = <<Pub("colors-changed",
                           [fg |-> getCurrentDefaultColors.foreground,
                            bg |-> getCurrentDefaultColors.background])>>

\* --------------------------------------------------------------- C13
\* the loop is about to call r.put
AtPut == AtEvent /\ batch[ix].name = "put"

\* C13: a put of k characters with the cursor at (r, c) writes them in
\* order into the cells (r, c) .. (r, c+k-1) of the grid and leaves the cursor
\* at (r, c+k); a put of no character changes nothing; without a drawing
\* surface for the cursor cell the cells are written and the cursor advanced
\* all the same, and no draw call is made.
C13_PutWritesInOrder ==
    [][AtPut =>
          LET chars == batch[ix].args
              k == Len(chars)
          IN  /\ cursor' = [row |-> cursor.row, col |-> cursor.col + k]
              /\ \A i \in 1..k :
                    InGrid(cursor.row, cursor.col + i - 1) =>
                        grid'.cells[cursor.row][cursor.col + i - 1].char = chars[i].ch
              /\ k = 0 => (ProgramState' = ProgramState /\ draws' = draws)
              /\ ~hasWindow => draws' = draws
              /\ (hasWindow /\ k > 0) => draws' # draws]_vars

\* two characters were put at the origin with no surface: both cells hold
\* them, the cursor is two columns on, nothing was drawn
C13_Witness ==
    /\ pc = "done"
    /\ ~hasWindow
    /\ Len(batch) = 1 /\ batch[1].name = "put" /\ Len(batch[1].args) = 2
    /\ pre[1].cursor = [row |-> 0, col |-> 0]
    /\ grid.cells[0][0].char = "a" /\ grid.cells[0][1].char = "b"
    /\ cursor = [row |-> 0, col |-> 2]
    /\ draws = <<>>

\* --------------------------------------------------------------- C14
\* an update_bg with a color was applied earlier in the running batch
BackgroundUpdated ==
    \E j \in 1..(ix - 1) :
        /\ batch[j].name = "update_bg"
        /\ \E t \in 1..Len(batch[j].args) : batch[j].args[t].color >= 0

\* C14: after an update_bg was applied in a batch, every cell a later put
\* of the batch writes is stored with the new background.
C14_PutUsesNewBackground ==
    [][(AtPut /\ BackgroundUpdated) =>
          \A i \in 1..Len(batch[ix].args) :
              InGrid(cursor.row, cursor.col + i - 1) =>
                  grid'.cells[cursor.row][cursor.col + i - 1].bg = colors.bg]_vars

\* --------------------------------------------------------------- C15
\* the cells a put at the cursor addresses
PutTargets ==
    {<<cursor.row, cursor.col + i - 1>> : i \in 1..Len(batch[ix].args)}

ScrollCalls == {j \in 1..Len(calls) : calls[j].name = "scroll"}

\* the last element of a non-empty set of numbers
Latest(S) == CHOOSE j \in S : \A i \in S : i <= j

\* the region the scroll at place j of calls is entitled to: the one of the
\* latest set_scroll_region after the scroll before it, the whole grid's
\* default when there is none
RegionDue(j) ==
    LET before == {i \in ScrollCalls : i < j}
        from == IF before = {} THEN 0 ELSE Latest(before)
        sets == {i \in (from + 1)..(j - 1) : calls[i].name = "set_scroll_region"}
    IN  IF sets = {} THEN defaultScrollRegion ELSE calls[Latest(sets)].args[1]

\* C16: the scroll region is one-shot.  Every scroll of a batch uses the
\* region of the latest set_scroll_region that came after the scroll before
\* it in the batch, and the full-grid default when there is none; no region
\* is set right after a scroll, nor once the batch has been applied.
C16_RegionOneShot ==
    /\ Len(shifts) = Cardinality(ScrollCalls)
    /\ \A j \in ScrollCalls :
          shifts[Cardinality({i \in ScrollCalls : i <= j})].region = RegionDue(j)
    /\ (calls # <<>> /\ calls[Len(calls)].name = "scroll") => lastScrollRegion = None
    /\ pc # "loop" => lastScrollRegion = None

\* a region was set and two scrolls followed in one batch: the first used
\* the region, the second the default
C16_Witness ==
    /\ pc = "done"
    /\ Len(calls) = 3
    /\ calls[1].name = "set_scroll_region" /\ calls[1].args[1].top = 1
    /\ calls[2].name = "scroll" /\ calls[3].name = "scroll"
    /\ shifts[1].region = calls[1].args[1]
    /\ shifts[2].region = defaultScrollRegion
    /\ shifts[1].region # shifts[2].region
    /\ lastScrollRegion = None

\* --------------------------------------------------------------- C17
\* the loop is about to call r.scroll
AtScroll == AtEvent /\ batch[ix].name = "scroll" /\ tx <= Len(batch[ix].args)

\* the region a scroll called now works on
RegionNow ==
    IF lastScrollRegion # None THEN lastScrollRegion[1] ELSE defaultScrollRegion

\* what the call added to a history h
Added(h, hNext) == SubSeq(hNext, Len(h) + 1, Len(hNext))

\* C17: scroll(n) with n > 0 on a region issues one move from the row
\* top + n to the row top and blanks the last n rows of the region with the
\* current background; with n < 0 one move from the row top to the row
\* top + |n|, blanking the first |n| rows.  The grid is shifted once, in the
\* same direction, by the same amount and on the same region.
C17_ScrollMoveAndFill ==
    [][AtScroll =>
          LET n == batch[ix].args[tx].amount
              k == IF n > 0 THEN n ELSE -n
              R == RegionNow
              drawn == Added(draws, draws')
              shifted == Added(shifts, shifts')
          IN  /\ shifted = <<[dir |-> IF n > 0 THEN "up" ELSE "down",
                              amount |-> k, region |-> R]>>
              /\ ~hasWindow => drawn = <<>>
              /\ hasWindow =>
                    /\ Len(drawn) = 3
                    /\ drawn[1].op = "moveRegion"
                    /\ drawn[1].a.source.row = (IF n > 0 THEN R.top + k ELSE R.top)
                    /\ drawn[1].a.destination.row = (IF n > 0 THEN R.top ELSE R.top + k)
                    /\ drawn[1].a.source.col = R.left
                    /\ drawn[1].a.destination.col = R.left
                    /\ drawn[2] = Draw("setColor", colors.bg)
                    /\ drawn[3].op = "fillRect"
                    /\ drawn[3].a[1] = R.left
                    /\ drawn[3].a[2] = (IF n > 0 THEN R.bottom - k + 1 ELSE R.top)
                    /\ drawn[3].a[4] = k]_vars

\* on a surface, a region was scrolled up by one row and the default region
\* down by one row in one batch: two moves, two fills, two grid shifts
C17_Witness ==
    /\ pc = "done"
    /\ hasWindow
    /\ Len(calls) = 3
    /\ calls[1].name = "set_scroll_region"
    /\ calls[2] = [name |-> "scroll", args |-> <<[amount |-> 1]>>]
    /\ calls[3] = [name |-> "scroll", args |-> <<[amount |-> -1]>>]
    /\ Len(draws) = 6
    /\ draws[1].a.source.row = calls[1].args[1].top + 1
    /\ draws[4].a.destination.row = 1
    /\ shifts[1].dir = "up" /\ shifts[2].dir = "down"

\* --------------------------------------------------------------- C18
\* the batch is a scroll up by n and a scroll down by n, each with the same
\* region set before it, with 0 < n < the height of the region
IsRoundTrip ==
    /\ Len(batch) = 4
    /\ batch[1].name = "set_scroll_region" /\ batch[3] = batch[1]
    /\ batch[2].name = "scroll" /\ batch[4].name = "scroll"
    /\ batch[2].args[1].amount > 0
    /\ batch[4].args[1].amount = -batch[2].args[1].amount
    /\ batch[2].args[1].amount < batch[1].args[1].bottom - batch[1].args[1].top + 1

\* C18: after scroll(+n) and scroll(-n) on the same region R, set before
\* each, every row of R but its first n holds what it held before, and
\* the first n rows of R hold the background.
C18_ScrollInverse ==
    (pc = "done" /\ IsRoundTrip) =>
        LET R == batch[1].args[1]
            n == batch[2].args[1].amount
        IN  \A row \in R.top..R.bottom, col \in R.left..R.right :
                InGrid(row, col) =>
                    grid.cells[row][col] =
                        IF row < R.top + n THEN BlankCell(grid.bg)
                        ELSE pre[1].grid.cells[row][col]

\* a round trip over rows that held a character in a row it blanks and in a
\* row it restores
C18_Witness ==
    /\ pc = "done" /\ IsRoundTrip
    /\ batch[2].args[1].amount = 1
    /\ LET R == batch[1].args[1]
       IN  /\ pre[1].grid.cells[R.top][0].char = "a"
           /\ grid.cells[R.top][0].char = " "
           /\ pre[1].grid.cells[R.bottom][0].char = "a"
           /\ grid.cells[R.bottom][0].char = "a"
           /\ pre[1].grid.cells[R.top + 1][0].char = " "

\* --------------------------------------------------------------- C19
\* the rows and columns a rectangle of the given origin and size covers
RowsOf(row, height) == row..(row + height - 1)
ColsOf(col, width) == col..(col + width - 1)

\* C19: a scroll with no region set works on exactly the full grid: the
\* moved rectangle and the filled one are as wide as the grid and touch no
\* row and no column outside it.
C19_DefaultIsFullGrid ==
    [][(AtScroll /\ lastScrollRegion = None /\ hasWindow) =>
          LET drawn == Added(draws, draws')
              move == drawn[1].a
              fill == drawn[3].a
          IN  /\ move.width = GridCols
              /\ fill[3] = GridCols
              /\ ColsOf(move.source.col, move.width) \subseteq 0..(GridCols - 1)
              /\ ColsOf(fill[1], fill[3]) \subseteq 0..(GridCols - 1)
              /\ RowsOf(move.source.row, move.height) \subseteq 0..(GridRows - 1)
              /\ RowsOf(move.destination.row, move.height) \subseteq 0..(GridRows - 1)
              /\ RowsOf(fill[2], fill[4]) \subseteq 0..(GridRows - 1)]_vars

\* --------------------------------------------------------------- C20
\* the loop is about to call r.msg_end
AtMsgEnd == AtEvent /\ batch[ix].name = "msg_end" /\ tx <= Len(batch[ix].args)

\* the severity each known kind stands for
SeverityOf(kind) == IF kind = "emsg" THEN NotifyKind.Error ELSE NotifyKind.Info

\* C20: the msg_end of a message that a msg_start_kind of a known kind
\* started makes exactly one notification, of the severity the kind stands
\* for (emsg: error; echo, echomsg: info), with the chunks of the message
\* in their order as its text.
C20_KnownKindNotifiedOnce ==
    [][(AtMsgEnd /\ msgLog.kind # None) =>
          Added(notes, notes') = <<[text |-> Join(msgLog.chunks),
                                    kind |-> SeverityOf(msgLog.kind[1])]>>]_vars

\* --------------------------------------------------------------- C21
\* the buffer msg_end finds is a message to deliver: neither the sentinel
\* nor the announcement of a macro recording
Deliverable(buffer) == buffer # Sentinel /\ ~IsRecording(buffer)

\* C21: every completed message is delivered.  A msg_end whose buffer is
\* neither the sentinel nor a macro announcement makes exactly one
\* notification, with the buffer as its text, and of hidden severity when no
\* kind was set for the message; a msg_end on the sentinel makes no
\* notification and publishes nothing.
C21_EveryMessageDelivered ==
    [][AtMsgEnd =>
          LET added == Added(notes, notes')
          IN  /\ message.buffer = Sentinel => (added = <<>> /\ pubs' = pubs)
              /\ Deliverable(message.buffer) =>
                    /\ Len(added) = 1
                    /\ added[1].text = message.buffer
                    /\ msgLog.kind = None => added[1].kind = NotifyKind.Hidden]_vars

\* --------------------------------------------------------------- C22
\* C22: after every msg_end the message buffer is empty, whatever path the
\* handler took.
C22_BufferEmptyAfterEnd ==
    [][AtMsgEnd => message'.buffer = <<>>]_vars

\* --------------------------------------------------------------- C23
\* C23: a message that no msg_start_kind started does not inherit the
\* severity of the message before it: whenever its msg_end comes, it is
\* delivered once, with hidden severity.
C23_NoInheritedSeverity ==
    [][(AtMsgEnd /\ msgLog.kind = None /\ msgLog.last # None
            /\ Deliverable(message.buffer)) =>
          Added(notes, notes') = <<[text |-> message.buffer,
                                    kind |-> NotifyKind.Hidden]>>]_vars

\* --------------------------------------------------------------- C24
\* C24: a msg_end whose buffer holds 'recording @<register>' publishes
\* exactly one vim:macro.end and makes no notification.
C24_MacroEndOnly ==
    [][(AtMsgEnd /\ IsRecording(message.buffer)) =>
          /\ Added(pubs, pubs') = <<Pub("vim:macro.end", NoPayload)>>
          /\ notes' = notes]_vars

\* the announcement came as a message of its own: one vim:macro.end, no
\* notification
C24_Witness ==
    /\ pc = "done"
    /\ batch = <<MsgChunk(RecordingQ), MsgEnd>>
    /\ pre[1].message.buffer = <<>>
    /\ pubs = <<Pub("vim:macro.end", NoPayload)>>
    /\ notes = <<>>

\* --------------------------------------------------------------- C25
\* the timer of a showmode runs
ShowmodeFires == pc = "idle" /\ pc' = "timer"

\* C25: the macro recording is reported through showmode.  The timer of a
\* msg_start_kind('showmode') that finds the announcement publishes one
\* vim:macro.start with the register q, and never after the vim:macro.end
\* of that announcement; no notification is ever made for the announcement.
C25_MacroStartBeforeEnd ==
    /\ [][(ShowmodeFires /\ pubs' # <<>>) =>
             /\ pubs' = <<Pub("vim:macro.start", [register |-> Some("q")])>>
             /\ ~msgLog.macroEnd]_vars
    /\ [](\A i \in 1..Len(notes) : ~IsRecording(notes[i].text))

\* --------------------------------------------------------------- C26
\* the loop is about to call r.msg_chunk
AtMsgChunk == AtEvent /\ batch[ix].name = "msg_chunk" /\ tx <= Len(batch[ix].args)

\* the text of the span the chunk data ends: every chunk from the one with
\* the start marker to data; nothing when no span is open
SpanText(data) ==
    IF SpanWith(msgLog.span, data) = None THEN <<>>
    ELSE Join(SpanWith(msgLog.span, data)[1])

\* C26: msg_chunk publishes msg:spell-check exactly when its chunk holds the
\* end marker, with the chunks from the one holding the start marker to
\* this one as the payload; the side buffer is then empty and capturing
\* off; every chunk is appended to the message buffer.
C26_SpellCheckSpan ==
    [][AtMsgChunk =>
          LET data == batch[ix].args[tx].data
              added == Added(pubs, pubs')
          IN  /\ EndsSpellCheck(data) =>
                    /\ added = <<Pub("msg:spell-check", [text |-> SpanText(data)])>>
                    /\ spellCheckMsg' = <<>>
                    /\ ~capturingSpellCheckMsg'
              /\ ~EndsSpellCheck(data) => added = <<>>
              /\ message'.buffer = message.buffer \o data]_vars

\* a prompt of three chunks that a msg_end divides was published whole,
\* and a plain chunk issued before its start is not in it
C26_Witness ==
    /\ pc = "done"
    /\ batch = <<MsgChunk(EnterMark)>>
    /\ pubs = <<Pub("msg:spell-check",
                    [text |-> SpellStart \o <<"o", "k">> \o EnterMark])>>
    /\ spellCheckMsg = <<>>
    /\ ~capturingSpellCheckMsg
    /\ pre[1].spellCheckMsg = <<SpellStart, <<"o", "k">>>>
    /\ message.buffer = EnterMark

\* --------------------------------------------------------------- C27
\* the step in which the timer of the debounced atlas check runs
AtlasChecked == pc = "idle" /\ timeout # None /\ timeout' = None

\* a sequence that holds no element twice
NoDuplicates(seq) == \A i, j \in 1..Len(seq) : seq[i] = seq[j] => i = j

\* C27: an atlas check that finds the top colors it recorded last issues no
\* generate; one that finds a color that was not among them issues exactly
\* one, of the top colors and the current foreground, none of them twice;
\* after every check the recorded colors are the current top colors.
C27_AtlasStability ==
    [][AtlasChecked =>
          /\ lastTop' \in getTopColors(commonColors, TopAmount)
          /\ Range(lastTop') = Range(lastTop) => generates' = <<>>
          /\ Range(lastTop') \ Range(lastTop) # {} =>
                /\ Len(generates') = 1
                /\ Range(generates'[1]) = Range(lastTop') \cup {colors.fg}
                /\ NoDuplicates(generates'[1])]_vars

\* a check found the default foreground newly among TopAmount top colors,
\* in the place of one of the colors recorded before, and asked for an
\* atlas of these TopAmount colors
C27_Witness ==
    /\ pc = "timer"
    /\ Len(pre[1].lastTop) = TopAmount
    /\ colors.fg \notin Range(pre[1].lastTop)
    /\ colors.fg \in Range(lastTop)
    /\ Len(generates) = 1
    /\ Len(generates[1]) = TopAmount

\* --------------------------------------------------------------- C28
\* the step in which a continuation calls the debounced atlas check
Triggered == pc = "idle" /\ pc' = "continuation"

\* the check body runs only once the whole wait has passed since the last
\* trigger, so never between two triggers less than the wait apart
ChecksAfterWait == [][AtlasChecked => timeout = Some(0)]_vars

\* once the triggers stop, the pending check runs and no timer is left
ChecksEventually == []<><<Triggered>>_vars \/ <>[](timeout = None)

\* C28 as stated: triggers less than the wait apart are coalesced, the check
\* body runs exactly once after the last of them (so a trigger that comes
\* when the wait of the one before has passed finds that check done), and
\* the pending check runs once the triggers stop.
C28_LastCallWins ==
    /\ ChecksAfterWait
    /\ [][Triggered => timeout # Some(0)]_vars
    /\ ChecksEventually

\* C28 as the code has it: every trigger replaces the pending timer by one
\* of the whole wait without running the check body, also a timer whose
\* wait has passed and which the event loop has not run yet; the check body
\* runs only once the whole wait has passed since the last trigger, at most
\* once between two triggers, and eventually once the triggers stop.
C28_LastCallWinsUntilRun ==
    /\ ChecksAfterWait
    /\ [][Triggered => timeout' = Some(WaitTicks) /\ lastTop' = lastTop]_vars
    /\ [][timeout = None /\ timeout' # None => Triggered]_vars
    /\ ChecksEventually

\* a trigger came less than the wait after the one before and replaced
\* its timer
C28_Witness ==
    /\ pc = "continuation"
    /\ pre[1].timeout # None
    /\ pre[1].timeout[1] \in 1..(WaitTicks - 1)
    /\ timeout = Some(WaitTicks)

\* --------------------------------------------------------------- C29
\* the step in which the loop of an applied batch is left
BatchEnds == pc = "loop" /\ pc' = "done"

\* the frame-complete notifications among the notifications h
Frames(h) == SelectSeq(h, LAMBDA n : n.topic = "redraw")

\* C29: when an applied batch ends the cursor is repainted and one
\* continuation is scheduled; every continuation runs eventually, outside
\* of any batch, and publishes exactly one frame-complete notification,
\* which nothing else publishes; a discarded batch schedules none.
C29_FramePerBatch ==
    /\ [][BatchEnds => /\ ix > Len(batch)
                       /\ moves' = Append(moves, colors.bg)
                       /\ immediates' = immediates + 1]_vars
    /\ [][immediates' # immediates =>
             \/ BatchEnds
             \/ /\ Triggered
                /\ batch = <<>>
                /\ immediates' = immediates - 1
                /\ Frames(pubs') = <<Pub("redraw", NoPayload)>>]_vars
    /\ [][Len(Frames(pubs')) > Len(Frames(pubs)) => Triggered]_vars
    /\ [](pc = "discarded" => immediates = pre[1].immediates /\ Frames(pubs) = <<>>)
    /\ (immediates > 0) ~> (pc = "continuation")

\* the continuation of an applied batch has run and published the
\* frame-complete notification
C29_Witness ==
    /\ pc = "continuation"
    /\ pre[1].immediates = 1
    /\ immediates = 0
    /\ pubs = <<Pub("redraw", NoPayload)>>
    /\ cmdcache.active

\* --------------------------------------------------------------- C30
\* C30: when the events of a batch begin to be applied no continuation of
\* an earlier batch is pending.
C30_ContinuationBeforeNextBatch ==
    [][pc = "idle" /\ pc' = "loop" => immediates = 0]_vars

\* --------------------------------------------------------------- C31
\* the loop is about to call the handler of the event `name`
AtCall(name) == AtEvent /\ batch[ix].name = name /\ tx <= Len(batch[ix].args)

\* the mode names of the entries infos
NamesIn(infos) == {infos[i].name : i \in 1..Len(infos)}

\* C31: once mode_info_set(entries) is processed (its call made, no lookup
\* pending) the mode table holds an entry for exactly the names in entries.
C31_TableReplaced ==
    [][(AtCall("mode_info_set") /\ getColorPending' = <<>>) =>
          DOMAIN modes' = NamesIn(batch[ix].args[tx].infos)]_vars

\* --------------------------------------------------------------- C32
\* C32: mode_change(M) with M in the mode table sets the cursor shape and
\* size to those of M's entry, and the cursor color when the entry has one;
\* with a name the table does not hold it leaves shape, size and color as
\* they are, and the loop goes on.
C32_ModeChangeFromTable ==
    [][AtCall("mode_change") =>
          LET M == batch[ix].args[tx].mode
          IN  /\ pc' = "loop"
              /\ M \in DOMAIN modes =>
                    /\ cursorStyle'.shape = modes[M].shape
                    /\ cursorStyle'.size = modes[M].size
                    /\ cursorStyle'.color = IF modes[M].color # None
                                            THEN modes[M].color
                                            ELSE cursorStyle.color
              /\ M \notin DOMAIN modes => cursorStyle' = cursorStyle]_vars

\* a mode_change to a mode whose entry has a color has set shape, size and
\* color, and one to an unknown mode has followed it and changed nothing
C32_Witness ==
    /\ pc = "loop"
    /\ Len(calls) = 2
    /\ calls[1] = [name |-> "mode_change", args |-> <<[mode |-> "insert"]>>]
    /\ calls[2] = [name |-> "mode_change", args |-> <<[mode |-> "visual"]>>]
    /\ pre[1].cursorStyle = [shape |-> "block", size |-> None, color |-> None]
    /\ cursorStyle = [shape |-> "underline", size |-> Some(20),
                      color |-> Some("#00ff00")]

\* --------------------------------------------------------------- C36
\* mode_change(M) has just been called, and a mode_info_set before it has
\* named M (the entry is in the table or waits for its lookup)
ChangedTo(M) ==
    /\ pc = "loop"
    /\ calls # <<>>
    /\ calls[Len(calls)] = [name |-> "mode_change", args |-> <<[mode |-> M]>>]
    /\ \/ M \in DOMAIN modes
       \/ \E i \in 1..Len(getColorPending) : getColorPending[i].mi.name = M

\* C36: after a mode_change(M) that follows a mode_info_set naming M, the
\* cursor shape and size eventually are those recorded for M (unless the
\* mode has changed again), whenever the lookup is answered and whatever
\* the answer.
C36_ModeEventuallyApplied ==
    \A M \in ModeNames :
        ChangedTo(M) ~> \/ currentMode # Some(M)
                        \/ /\ cursorStyle.shape = cursorShapeType(ShapeIn(M))
                           /\ cursorStyle.size = SizeIn(M)

\* --------------------------------------------------------------- C33
\* the channel an update event writes
ChannelOf(name) ==
    CASE name = "update_fg" -> "fg" [] name = "update_bg" -> "bg" [] OTHER -> "sp"

\* the loop is about to call update_fg, update_bg or update_sp
AtUpdate ==
    /\ AtEvent
    /\ batch[ix].name \in {"update_fg", "update_bg", "update_sp"}
    /\ tx <= Len(batch[ix].args)

\* C33: update_fg, update_bg and update_sp with a negative value change no
\* state; with another value each resolves the value into its own channel
\* of the default colors (and of the ambient colors of the grid) and
\* leaves the two other channels, the cells and all other state as it is.
C33_OwnChannelOnly ==
    [][AtUpdate =>
          LET ch == ChannelOf(batch[ix].name)
              v == batch[ix].args[tx].color
          IN  /\ v < 0 => ProgramState' = ProgramState /\ pubs' = pubs /\ draws' = draws
              /\ v >= 0 =>
                    /\ colors'[ch] = asColor(v)
                    /\ \A other \in Channels \ {ch} :
                          colors'[other] = colors[other] /\ grid'[other] = grid[other]
                    /\ grid'.cells = grid.cells
                    /\ [ProgramState EXCEPT !.colors = 0, !.grid = 0]'
                          = [ProgramState EXCEPT !.colors = 0, !.grid = 0]]_vars

\* an update_bg has set the default background while the other channels
\* and a cell written before it are as they were
C33_Witness ==
    /\ pc = "loop"
    /\ calls = <<[name |-> "update_bg", args |-> <<[color |-> 1]>>]>>
    /\ colors = [fg |-> Some("#dddddd"), bg |-> Some("#000001"), sp |-> Some("#ef5188")]
    /\ grid.cells[0][0].char = "a"
    /\ grid.cells[0][0].bg = Some("#2d2d2d")

\* --------------------------------------------------------------- C34
\* addHighlight has just returned
AfterAddHighlight ==
    pc = "call" /\ calls[1].name = "addHighlight"

\* C34: after addHighlight(id, attrs, infos) for the current instance,
\* getColorById(id) returns the resolved foreground and background of attrs,
\* swapped when attrs.reverse is set; an id no addHighlight has defined
\* gives the pair of two absent colors.
C34_ColorByIdFollows ==
    AfterAddHighlight =>
        LET id == calls[1].args[1]
            attr == calls[1].args[2]
        IN  /\ getColorById(id) =
                  IF attr.reverse
                  THEN [foreground |-> asColor(attr.background),
                        background |-> asColor(attr.foreground)]
                  ELSE [foreground |-> asColor(attr.foreground),
                        background |-> asColor(attr.background)]
            /\ \A other \in HlIds :
                  MapMapGet(pre[1].highlights, current, other) = None /\ other # id
                      => getColorById(other) = [foreground |-> None, background |-> None]

\* --------------------------------------------------------------- C35
\* the loop is about to call r.highlight_set with one attribute record (the
\* call is the step that lengthens `calls`)
AtHighlightSet ==
    /\ AtEvent
    /\ batch[ix].name = "highlight_set"
    /\ tx <= Len(batch[ix].args)

\* how often a color has been recorded
CountOf(counts, color) == IF color \in DOMAIN counts THEN counts[color] ELSE 0

\* the foreground a highlight_set resolves to: the given color or else the
\* default one, of the background when the highlight is reversed
ResolvedForeground(a) ==
    IF a.reverse
    THEN IF a.background # 0 THEN asColor(a.background) ELSE colors.bg
    ELSE IF a.foreground # 0 THEN asColor(a.foreground) ELSE colors.fg

C37_ErrorSeverityKept ==
    [][(AtMsgEnd /\ msgLog.kind = Some("emsg")) =>
          LET delivered == Added(notes, notes')
          IN  Len(delivered) = 1 /\ delivered[1].kind = NotifyKind.Error]_vars

\* --------------------------------------------------------------- C38
\* the group addHighlight hands to highlights.set
GroupOf(attr) ==
    [foreground |-> IF attr.reverse THEN asColor(attr.background)
                    ELSE asColor(attr.foreground),
     background |-> IF attr.reverse THEN asColor(attr.foreground)
                    ELSE asColor(attr.background),
     special |-> asColor(attr.special),
     underline |-> attr.underline \/ attr.undercurl,
     reverse |-> attr.reverse]

\* C38: the two-level map of the highlight table is a faithful store.
\* After highlights.set(current, id, group), made by addHighlight or by a
\* setDefaultColors that changes the colors, has(current, id) is true and
\* get(current, id) is the group, also when it is the first write under
\* the instance; and subsize(current) is the number of distinct ids set
\* under it: one more than before for a new id, the same for a known one.
C38_FaithfulStore ==
    (AfterAddHighlight \/ (AfterSetDefaultColors /\ calls[1].ret)) =>
        LET id == IF AfterAddHighlight THEN calls[1].args[1] ELSE 0
            before == pre[1].highlights
            sizeBefore == IF MapMapSubsize(before, current) < 0 THEN 0
                          ELSE MapMapSubsize(before, current)
        IN  /\ MapMapHas(highlights, current, id)
            /\ AfterAddHighlight =>
                  MapMapGet(highlights, current, id) = Some(GroupOf(calls[1].args[2]))
            /\ MapMapSubsize(highlights, current) =
                  sizeBefore + (IF MapMapHas(before, current, id) THEN 0 ELSE 1)

\* --------------------------------------------------------------- C39
\* '#rrggbb' for the values of ColorSamples, written out
HexOf(v) ==
    CASE v = 0 -> "#000000"
      [] v = 1 -> "#000001"
      [] v = 255 -> "#0000ff"
      [] v = 256 -> "#000100"
      [] v = 65536 -> "#010000"
      [] v = 11259375 -> "#abcdef"
      [] v = 16777215 -> "#ffffff"

\* C39: color resolution covers the whole range 0 .. 0xFFFFFF.  A default
\* color set by update_sp, the foreground given to a highlight_set and the
\* default foreground given to setDefaultColors all resolve to the string
\* '#rrggbb' of the value, zero included: zero is '#000000' and is never
\* replaced by another color.
C39_ResolvesWholeRange ==
    [][/\ (AtUpdate /\ batch[ix].args[tx].color >= 0) =>
             colors'[ChannelOf(batch[ix].name)] = Some(HexOf(batch[ix].args[tx].color))
       /\ AtHighlightSet =>
             nextAttrs'.fg = Some(HexOf(batch[ix].args[tx].foreground))
       /\ (pc = "idle" /\ pc' = "call" /\ calls'[1].name = "setDefaultColors") =>
             getCurrentDefaultColors'.foreground = Some(HexOf(calls'[1].args[1]))]_vars

\* --------------------------------------------------------------- C40
\* no promise job of request r is left to run
Drained(r) == \A i \in 1..Len(early.microtasks) : early.microtasks[i].of # r

\* what maybeAfter yields when it is the promise that wins the race
ByPromise(val) == Some([by |-> "promise", state |-> "fulfilled", value |-> Some(val)])

\* what maybeAfter yields when it is the timer that wins the race
ByTimer == Some([by |-> "timer", state |-> "fulfilled", value |-> Some(OrDefault)])

\* C40: an EarlyPromise delivers the value it resolves to through exactly
\* one channel.  Once the promise jobs of a request have run: a fulfilled
\* promise has either given its value to maybeAfter, the callback of
\* eventually never called, or maybeAfter has yielded the default and the
\* callback was called exactly once, with the value; the first when the
\* promise was fulfilled before the delay expired, the second when the
\* delay expired on a pending promise.
C40_ExactlyOneChannel ==
    \A r \in Requests :
        LET p == early.promises[r]
        IN  (p.created /\ Drained(r)) =>
              /\ (p.promise # None /\ p.promise[1].state = "fulfilled") =>
                    LET val == p.promise[1].value
                    IN  \/ p.race = ByPromise(val) /\ p.called = <<>>
                        \/ p.race = ByTimer /\ p.called = <<val>>
              /\ (p.promise # None /\ p.promise[1].state = "fulfilled"
                     /\ ~p.delayExpired) => p.race = ByPromise(p.promise[1].value)
              /\ (p.promise = None /\ p.delayExpired) =>
                    p.race = ByTimer /\ p.called = <<>>

\* one request was answered after its delay had expired: maybeAfter yielded
\* the default and the callback got the list; the other was answered before:
\* maybeAfter yielded the list, the callback was not called, and the timer
\* has run since
C40_Witness ==
    /\ early.microtasks = <<>>
    /\ early.promises[1].promise = Fulfilled(<<"a">>)
    /\ early.promises[1].race = ByTimer
    /\ early.promises[1].called = <<<<"a">>>>
    /\ early.promises[2].promise = Fulfilled(<<"a">>)
    /\ early.promises[2].race = ByPromise(<<"a">>)
    /\ early.promises[2].called = <<>>
    /\ early.promises[2].delayExpired

====
